---- MODULE Spec2Model ----
(***************************************************************************)
(* Routing core of the MBTA transfer helper: the static Dijkstra finder    *)
(* and the real-time enrichment pass (backend/dijkstra_router.py), the     *)
(* transfer feasibility model (backend/transfer_analyzer.py), the          *)
(* alternative-route generator and the time-aware Pareto search            *)
(* (backend/route_planner.py).                                             *)
(*                                                                         *)
(* Times are integer seconds on one absolute axis (datetime instants);     *)
(* durations are integer seconds.  Walking distances in the graph are      *)
(* multiples of 25 m and walking speeds whole km/h, so that the float      *)
(* quotient distance / (speed * 1000 / 3600) is a whole number of seconds  *)
(* and the integer division below is exact.                                *)
(***************************************************************************)
EXTENDS Integers, Sequences, FiniteSets, TLC

VARIABLES
    pc,            \* position of the running operation
    request,       \* arguments of the running call
    caller,        \* who awaits the enrichment: "find_route" or "suggest_alternatives"
    path,          \* edge list found by phase 1
    enrich,        \* locals of enrich_with_realtime
    route,         \* value returned by find_route / find_time_aware_path
    alt,           \* locals of suggest_alternatives
    search,        \* locals of find_time_aware_path
    probe,         \* argument and result of a pure-function call
    handler        \* locals of the /api/route handler

vars == <<pc, request, caller, path, enrich, route, alt, search, probe, handler>>

(***************************************************************************)
(* Optional values.  Python None for strings is "None"; a missing number   *)
(* (Optional[datetime], Optional[float]) is NoneNum, below every time and  *)
(* every slack the model can produce.                                      *)
(***************************************************************************)
None == "None"

NoneNum == -1000000

SeqToSet(s) == {s[i] : i \in 1..Len(s)}

\* dict.get(key, default)
EdgeGet(e, f, d) == IF f \in DOMAIN e THEN e[f] ELSE d

\* Python truthiness of an optional string
Truthy(x) == x # None /\ x # ""

(***************************************************************************)
(* The graph snapshot: stations and typed directed edges.                  *)
(***************************************************************************)
Nodes ==
    {"place-harsq", "place-pktrm", "place-dwnxg", "place-sstat",
     "place-gover", "place-kencl", "place-state", "place-boyls",
     "place-lech", "place-spmnl", "place-north", "place-sull", "place-haecl"}

TrainEdge(f, t, l, r, ts, dm) ==
    [from |-> f, to |-> t, type |-> "train", line |-> l, route_id |-> r,
     time_seconds |-> ts, distance_meters |-> dm]

WalkEdge(f, t, ts, dm) ==
    [from |-> f, to |-> t, type |-> "walk", time_seconds |-> ts, distance_meters |-> dm]

Edges ==
    << TrainEdge("place-harsq", "place-pktrm", "Red Line", "Red", 300, 3000),
       TrainEdge("place-pktrm", "place-dwnxg", "Red Line", "Red", 120, 500),
       TrainEdge("place-dwnxg", "place-sstat", "Red Line", "Red", 120, 600),
       TrainEdge("place-pktrm", "place-gover", "Green-D", "Green-D", 150, 400),
       TrainEdge("place-gover", "place-kencl", "Green-B", "Green-B", 240, 2500),
       TrainEdge("place-pktrm", "place-boyls", "Green Line", "Green-C", 90, 450),
       TrainEdge("place-dwnxg", "place-state", "Orange Line", "Orange", 100, 350),
       WalkEdge("place-pktrm", "place-dwnxg", 200, 250),
       WalkEdge("place-dwnxg", "place-pktrm", 200, 250),
       WalkEdge("place-state", "place-gover", 180, 0),
       WalkEdge("place-boyls", "place-kencl", 0, 500),
       [from |-> "place-sstat", to |-> "place-boyls", type |-> "transfer",
        time_seconds |-> 60, distance_meters |-> 100],
       [from |-> "place-boyls", to |-> "place-harsq", line |-> "Red Line",
        route_id |-> "Red", distance_meters |-> 4000, time_seconds |-> 420],
       [from |-> "place-kencl", to |-> "place-boyls", type |-> "train",
        line |-> "Green-B", route_id |-> "Green-B", distance_meters |-> 2000],
       TrainEdge("place-lech", "place-spmnl", "Green-E", "Green-E", 100, 700),
       TrainEdge("place-spmnl", "place-north", "Green-D", "Green-D", 100, 800),
       TrainEdge("place-north", "place-haecl", "Orange Line", "Orange", 100, 500),
       TrainEdge("place-lech", "place-sull", "Orange Line", "Orange", 150, 1500),
       TrainEdge("place-sull", "place-haecl", "Orange Line", "Orange", 151, 1600) >>

\* self.adjacency[from_id], in edge order
Adjacency(s) == SelectSeq(Edges, LAMBDA e : e.from = s)

(***************************************************************************)
(* heapq: a binary min-heap kept in a list; positions are 0-based as in    *)
(* Python, the sequence is 1-based.  Heap items carry their ordering key.  *)
(***************************************************************************)
RECURSIVE LexLt(_, _)
LexLt(a, b) ==
    IF a = <<>> THEN b # <<>>
    ELSE IF b = <<>> THEN FALSE
    ELSE IF Head(a) < Head(b) THEN TRUE
    ELSE IF Head(b) < Head(a) THEN FALSE
    ELSE LexLt(Tail(a), Tail(b))

\* DijkstraNode.__lt__
NodeLt(a, b) == LexLt(a.key, b.key)

RECURSIVE SiftDown(_, _, _, _)
SiftDown(heap, startpos, pos, newitem) ==
    IF pos > startpos
    THEN LET parentpos == (pos - 1) \div 2
             parent == heap[parentpos + 1]
         IN IF NodeLt(newitem, parent)
            THEN SiftDown([heap EXCEPT ![pos + 1] = parent], startpos, parentpos, newitem)
            ELSE [heap EXCEPT ![pos + 1] = newitem]
    ELSE [heap EXCEPT ![pos + 1] = newitem]

RECURSIVE SiftUp(_, _, _, _)
SiftUp(heap, startpos, pos, newitem) ==
    LET endpos == Len(heap)
        childpos == 2 * pos + 1
        rightpos == childpos + 1
    IN IF childpos < endpos
       THEN LET c == IF rightpos < endpos /\ ~NodeLt(heap[childpos + 1], heap[rightpos + 1])
                     THEN rightpos ELSE childpos
            IN SiftUp([heap EXCEPT ![pos + 1] = heap[c + 1]], startpos, c, newitem)
       ELSE SiftDown([heap EXCEPT ![pos + 1] = newitem], startpos, pos, newitem)

HeapPush(heap, item) == SiftDown(Append(heap, item), 0, Len(heap), item)

\* heappop of a non-empty heap: the item and the remaining heap
HeapPop(heap) ==
    LET lastelt == heap[Len(heap)]
        rest == SubSeq(heap, 1, Len(heap) - 1)
    IN IF rest = <<>>
       THEN [item |-> lastelt, heap |-> rest]
       ELSE [item |-> rest[1], heap |-> SiftUp(rest, 0, 0, lastelt)]

(***************************************************************************)
(* Phase 1: DijkstraRouter.find_shortest_path.                             *)
(***************************************************************************)
DijkstraNode(t, s, p) == [key |-> <<t>>, total_time |-> t, station_id |-> s, path |-> p]

\* edge.get("line") or edge.get("route_id")
LineOrRoute(e) ==
    IF Truthy(EdgeGet(e, "line", None)) THEN e.line ELSE EdgeGet(e, "route_id", None)

\* the 1-second penalty for a train-to-train line change
LineChangePenalty(current, edge) ==
    LET current_line == IF current.path = <<>> THEN None
                        ELSE LineOrRoute(current.path[Len(current.path)])
        edge_line == LineOrRoute(edge)
        last_edge_type == IF current.path = <<>> THEN "train"
                          ELSE EdgeGet(current.path[Len(current.path)], "type", "train")
    IN IF Truthy(current_line) /\ Truthy(edge_line) /\ current_line # edge_line
          /\ EdgeGet(edge, "type", "train") = "train" /\ last_edge_type = "train"
       THEN 1 ELSE 0

\* the for loop over the neighbouring edges of the popped node
RECURSIVE ExploreEdges(_, _, _, _, _)
ExploreEdges(pq, edges, i, current, visited) ==
    IF i > Len(edges) THEN pq
    ELSE LET edge == edges[i]
             edge_time == EdgeGet(edge, "time_seconds", 0)
             new_time == current.total_time + edge_time + LineChangePenalty(current, edge)
         IN IF edge.to \in visited \/ edge_time <= 0
            THEN ExploreEdges(pq, edges, i + 1, current, visited)
            ELSE ExploreEdges(
                     HeapPush(pq, DijkstraNode(new_time, edge.to, Append(current.path, edge))),
                     edges, i + 1, current, visited)

\* the while loop; the result is [found, path], found = FALSE for None
RECURSIVE DijkstraLoop(_, _, _)
DijkstraLoop(pq, visited, end_station_id) ==
    IF pq = <<>> THEN [found |-> FALSE, path |-> <<>>]
    ELSE LET popped == HeapPop(pq)
             current == popped.item
         IN IF current.station_id = end_station_id
            THEN [found |-> TRUE, path |-> current.path]
            ELSE IF current.station_id \in visited
            THEN DijkstraLoop(popped.heap, visited, end_station_id)
            ELSE DijkstraLoop(
                     ExploreEdges(popped.heap, Adjacency(current.station_id), 1, current,
                                  visited \cup {current.station_id}),
                     visited \cup {current.station_id}, end_station_id)

FindShortestPath(start_station_id, end_station_id) ==
    IF start_station_id \notin Nodes \/ end_station_id \notin Nodes
    THEN [found |-> FALSE, path |-> <<>>]
    ELSE DijkstraLoop(<<DijkstraNode(0, start_station_id, <<>>)>>, {}, end_station_id)

(***************************************************************************)
(* Transfer feasibility model (transfer_analyzer.py).                      *)
(***************************************************************************)
STATION_BUFFERS ==
    [s \in {"place-pktrm", "place-dwnxg", "place-sstat", "place-jfk", "place-north",
            "place-bbsta", "place-rugg", "place-haecl", "place-state", "place-gover",
            "place-coecl", "place-kencl", "place-lech", "place-aport", "default"} |->
        CASE s \in {"place-pktrm", "place-sstat", "place-north"} -> 180
          [] s = "place-dwnxg" -> 150
          [] s \in {"place-jfk", "place-bbsta", "place-haecl", "place-state",
                    "place-gover", "place-kencl", "place-lech"} -> 120
          [] s \in {"place-rugg", "place-coecl", "place-aport"} -> 90
          [] OTHER -> 60]

LINE_TRANSFER_ADJUSTMENTS ==
    [p \in {<<"Red Line", "Green Line">>, <<"Green Line", "Red Line">>,
            <<"Orange Line", "Green Line">>, <<"Green Line", "Orange Line">>,
            <<"Red Line", "Commuter Rail">>, <<"Commuter Rail", "Red Line">>,
            <<"Orange Line", "Commuter Rail">>, <<"Commuter Rail", "Orange Line">>,
            <<"Blue Line", "Green Line">>, <<"Green Line", "Blue Line">>,
            <<"Blue Line", "Orange Line">>, <<"Orange Line", "Blue Line">>} |->
        CASE "Commuter Rail" \in {p[1], p[2]} -> 60
          [] {p[1], p[2]} = {"Red Line", "Green Line"} -> 30
          [] OTHER -> 20]

Max(a, b) == IF a >= b THEN a ELSE b

\* variant: the line pair adds nothing to the station's buffer
calculate_transfer_time_station_only(station_id, from_line, to_line, walking_speed_kmh) ==
    LET base_total == IF station_id \in DOMAIN STATION_BUFFERS
                      THEN STATION_BUFFERS[station_id] ELSE STATION_BUFFERS["default"]
        total_buffer == IF walking_speed_kmh > 0
                        THEN (2 * base_total * walking_speed_kmh + 15 * base_total)
                                 \div (5 * walking_speed_kmh)
                        ELSE base_total
    IN Max(total_buffer, 30)

\* int(fixed_time + adjusted_walking_time), with WALKING_PORTION = 0.6 and
\* speed_factor = 5.0 / walking_speed_kmh:
\*   0.4 * base + 0.6 * base * 5 / speed = (2 * base * speed + 15 * base) / (5 * speed)
calculate_transfer_time(station_id, from_line, to_line, walking_speed_kmh) ==
    LET base_buffer == IF station_id \in DOMAIN STATION_BUFFERS
                       THEN STATION_BUFFERS[station_id] ELSE STATION_BUFFERS["default"]
        line_adjustment == IF Truthy(from_line) /\ Truthy(to_line)
                              /\ <<from_line, to_line>> \in DOMAIN LINE_TRANSFER_ADJUSTMENTS
                           THEN LINE_TRANSFER_ADJUSTMENTS[<<from_line, to_line>>] ELSE 0
        base_total == base_buffer + line_adjustment
        total_buffer == IF walking_speed_kmh > 0
                        THEN (2 * base_total * walking_speed_kmh + 15 * base_total)
                                 \div (5 * walking_speed_kmh)
                        ELSE base_total
    IN Max(total_buffer, 30)

\* variant: five minutes of slack already count as likely
rate_transfer_inclusive(slack_time_seconds) ==
    IF slack_time_seconds >= 300 THEN "likely"
    ELSE IF slack_time_seconds > 120 THEN "risky"
    ELSE "unlikely"

rate_transfer(slack_time_seconds) ==
    IF slack_time_seconds > 300 THEN "likely"
    ELSE IF slack_time_seconds > 120 THEN "risky"
    ELSE "unlikely"

get_transfer_details(station_id, from_line, to_line, arrival_time_seconds, departure_time_seconds, walking_time_seconds, walking_speed_kmh) ==
    LET buffer_seconds == calculate_transfer_time(station_id, from_line, to_line,
                                                  walking_speed_kmh)
        total_required == buffer_seconds + walking_time_seconds
        available_time == departure_time_seconds - arrival_time_seconds
        slack_time == available_time - total_required
    IN [buffer_seconds |-> buffer_seconds,
        walking_time_seconds |-> walking_time_seconds,
        total_required_seconds |-> total_required,
        available_seconds |-> available_time,
        slack_time_seconds |-> slack_time,
        rating |-> rate_transfer(slack_time)]

(***************************************************************************)
(* Phase 2: DijkstraRouter.enrich_with_realtime, one edge of the path per  *)
(* step (the awaits on the real-time client separate the steps).           *)
(***************************************************************************)
RouteSegment(from_station, to_station, type, line, route_id, time_seconds, distance_meters, departure_time, arrival_time, status, transfer_rating, slack_time_seconds, buffer_seconds) ==
    [from_station |-> from_station, to_station |-> to_station, type |-> type,
     line |-> line, route_id |-> route_id, time_seconds |-> time_seconds,
     distance_meters |-> distance_meters, departure_time |-> departure_time,
     arrival_time |-> arrival_time, status |-> status,
     transfer_rating |-> transfer_rating, slack_time_seconds |-> slack_time_seconds,
     buffer_seconds |-> buffer_seconds]

Route(segments, total_time_seconds, total_distance_meters, num_transfers, departure_time, arrival_time) ==
    [segments |-> segments, total_time_seconds |-> total_time_seconds,
     total_distance_meters |-> total_distance_meters, num_transfers |-> num_transfers,
     departure_time |-> departure_time, arrival_time |-> arrival_time]

\* the value of a call that returned None
NoRoute == [segments |-> <<>>, none |-> TRUE]

IsRoute(r) == "none" \notin DOMAIN r

is_same_line_exact(line1, line2) ==
    IF line1 = None \/ line2 = None THEN FALSE ELSE line1 = line2

is_same_line_family(line1, line2) ==
    LET green_branches == {"B", "C", "D", "E", "Green-B", "Green-C", "Green-D", "Green-E"}
    IN IF line1 = None \/ line2 = None THEN FALSE
       ELSE IF line1 \in green_branches /\ line2 \in green_branches THEN TRUE
       ELSE line1 = line2

\* walk_distance / speed_ms with speed_ms = walking_speed_kmh * 1000 / 3600
WalkTime(edge, walking_speed_kmh) ==
    IF walking_speed_kmh > 0
    THEN (EdgeGet(edge, "distance_meters", 0) * 18) \div (5 * walking_speed_kmh)
    ELSE EdgeGet(edge, "time_seconds", 0)

\* locals at entry of enrich_with_realtime
EnrichStart(departure_time, request_time) ==
    [i |-> 1,
     request_time |-> IF request_time = NoneNum THEN departure_time ELSE request_time,
     departure_time |-> departure_time,
     current_time |-> departure_time,
     enriched_segments |-> <<>>,
     total_distance |-> 0,
     num_transfers |-> 0,
     current_line |-> None]

\* the walk branch of the loop body
WalkBranch(en, edge, walking_speed_kmh) ==
    LET walk_distance == EdgeGet(edge, "distance_meters", 0)
        walk_time == WalkTime(edge, walking_speed_kmh)
        arrival_time == en.current_time + walk_time
        segment == RouteSegment(edge.from, edge.to, "walk", None, None, walk_time,
                                walk_distance, en.current_time, arrival_time, "Walking",
                                None, NoneNum, NoneNum)
    IN [en EXCEPT !.i = @ + 1,
                  !.enriched_segments = Append(@, segment),
                  !.current_time = arrival_time,
                  !.current_line = None,
                  !.total_distance = @ + walk_distance]

\* d for d in departures if d["departure_time"] >= current_time
\* variant: the departures already gone are kept
ValidDeparturesUnfiltered(departures, current_time) == departures

ValidDepartures(departures, current_time) ==
    SelectSeq(departures, LAMBDA d : d.departure_time >= current_time)

\* slack_time of a transfer segment
SlackTime(wait_time, transfer_buffer_seconds) == wait_time - transfer_buffer_seconds

\* arr_time resolved from the destination prediction; NoneNum when unresolved
DestArrival(next_train, dep_time, pred) ==
    IF ~Truthy(EdgeGet(next_train, "trip_id", None)) THEN NoneNum
    ELSE IF pred.kind # "arrival" THEN NoneNum
    ELSE IF pred.arrival_time > dep_time THEN pred.arrival_time
    ELSE NoneNum

\* the train branch of the loop body.  answer is what get_next_departures does
\* ([raises |-> TRUE] or [raises |-> FALSE, departures |-> list]); pred what
\* get_predictions at the destination stop does.
TrainBranch(en, edge, mbta_client, walking_speed_kmh, answer, pred) ==
    LET from_station == edge.from
        to_station == edge.to
        route_id == EdgeGet(edge, "route_id", None)
        line_name == EdgeGet(edge, "line", None)
        static_travel_time == EdgeGet(edge, "time_seconds", 120)
        distance == EdgeGet(edge, "distance_meters", 0)
        is_transfer == en.current_line # None
                       /\ ~is_same_line_family(line_name, en.current_line)
        transfer_buffer_seconds ==
            IF is_transfer
            THEN calculate_transfer_time(from_station, en.current_line, line_name,
                                         walking_speed_kmh)
            ELSE 0
        current_time == en.current_time + transfer_buffer_seconds
        valid_departures == IF mbta_client /\ ~answer.raises
                            THEN ValidDepartures(answer.departures, current_time)
                            ELSE <<>>
        Fallback(status) ==
            RouteSegment(from_station, to_station, "train", line_name, route_id,
                         static_travel_time, distance, current_time,
                         current_time + static_travel_time, status, None, NoneNum, NoneNum)
        segment ==
            IF ~mbta_client THEN Fallback("Scheduled")
            ELSE IF answer.raises THEN Fallback("Estimated")
            ELSE IF valid_departures = <<>> THEN Fallback("Estimated")
            ELSE LET next_train == valid_departures[1]
                     dep_time == next_train.departure_time
                     wait_time == dep_time - current_time
                     resolved == DestArrival(next_train, dep_time, pred)
                     arr_time == IF resolved = NoneNum THEN dep_time + static_travel_time
                                 ELSE resolved
                     actual_travel_time == IF resolved = NoneNum THEN static_travel_time
                                           ELSE resolved - dep_time
                     rated == is_transfer /\ transfer_buffer_seconds > 0
                     slack_time == IF rated
                                   THEN SlackTime(wait_time, transfer_buffer_seconds)
                                   ELSE NoneNum
                 IN RouteSegment(from_station, to_station, "train", line_name, route_id,
                                 actual_travel_time, distance, dep_time, arr_time,
                                 EdgeGet(next_train, "status", "Scheduled"),
                                 IF rated THEN rate_transfer(slack_time) ELSE None,
                                 slack_time,
                                 IF is_transfer THEN transfer_buffer_seconds ELSE NoneNum)
    IN [en EXCEPT !.i = @ + 1,
                  !.enriched_segments = Append(@, segment),
                  !.num_transfers = IF is_transfer THEN @ + 1 ELSE @,
                  !.current_time = segment.arrival_time,
                  !.current_line = line_name,
                  !.total_distance = @ + distance]

\* one iteration of "for i, edge in enumerate(path)"
EnrichEdge(en, edge, mbta_client, walking_speed_kmh, answer, pred) ==
    LET edge_type == EdgeGet(edge, "type", "train")
    IN IF edge_type = "walk" THEN WalkBranch(en, edge, walking_speed_kmh)
       ELSE IF edge_type = "train"
       THEN TrainBranch(en, edge, mbta_client, walking_speed_kmh, answer, pred)
       ELSE [en EXCEPT !.i = @ + 1]

\* "Build final route"
BuildRoute(en) ==
    Route(en.enriched_segments, en.current_time - en.request_time, en.total_distance,
          en.num_transfers, en.departure_time, en.current_time)

(***************************************************************************)
(* The real-time departure source.  get_next_departures returns at most    *)
(* limit = 3 departures sorted by departure time (mbta_client.py), or      *)
(* raises; get_predictions at the destination stop raises, returns         *)
(* nothing, or returns an arrival time.  Answers are placed relative to    *)
(* the boarding clock so that every branch of the enrichment is taken.     *)
(***************************************************************************)
DepartureLimit == 3

\* the departures the source may report, by offset from the boarding clock
DepartureKinds ==
    { [off |-> -60, status |-> "On time", trip_id |-> "trip-past"],
      [off |-> 0, status |-> "Delayed", trip_id |-> "trip-now"],
      [off |-> 350, trip_id |-> None],
      [off |-> 700, status |-> "On time", trip_id |-> "trip-late"] }

\* the destination-stop answers, arrival by offset from the boarding clock
PredictionKinds ==
    { [kind |-> "raise"], [kind |-> "empty"],
      [kind |-> "arrival", off |-> 0], [kind |-> "arrival", off |-> 90],
      [kind |-> "arrival", off |-> 790] }

\* the answers of the reduced source used while alternatives are searched
AltDepartureKinds ==
    { [off |-> -60, status |-> "On time", trip_id |-> None],
      [off |-> 0, status |-> "Delayed", trip_id |-> None],
      [off |-> 350, trip_id |-> None],
      [off |-> 700, status |-> "On time", trip_id |-> None] }

AltPredictionKinds == { [kind |-> "empty"] }

\* departures.sort(key=departure_time)
RECURSIVE SortedDepartures(_, _)
SortedDepartures(kinds, clock) ==
    IF kinds = {} THEN <<>>
    ELSE LET k == CHOOSE x \in kinds : \A y \in kinds : x.off <= y.off
             d == [f \in (DOMAIN k \ {"off"}) \cup {"departure_time"} |->
                      IF f = "departure_time" THEN clock + k.off ELSE k[f]]
         IN <<d>> \o SortedDepartures(kinds \ {k}, clock)

\* the clock at which the train is boarded: current_time after the transfer buffer
BoardingClock(en, edge, walking_speed_kmh) ==
    LET line_name == EdgeGet(edge, "line", None)
    IN IF en.current_line # None /\ ~is_same_line_family(line_name, en.current_line)
       THEN en.current_time
            + calculate_transfer_time(edge.from, en.current_line, line_name,
                                      walking_speed_kmh)
       ELSE en.current_time

NoAnswer == [raises |-> TRUE]

\* what the source may answer for this edge: <<answer, prediction>> pairs
SourceAnswers(en, edge, mbta_client, walking_speed_kmh, kinds, preds) ==
    IF EdgeGet(edge, "type", "train") # "train" \/ ~mbta_client
    THEN {<<NoAnswer, [kind |-> "empty"]>>}
    ELSE LET clock == BoardingClock(en, edge, walking_speed_kmh)
             lists == {SortedDepartures(S, clock) :
                          S \in {T \in SUBSET kinds : Cardinality(T) <= DepartureLimit}}
             answers == {NoAnswer} \cup {[raises |-> FALSE, departures |-> l] : l \in lists}
             predictions == {IF p.kind = "arrival"
                             THEN [kind |-> "arrival", arrival_time |-> clock + p.off]
                             ELSE p : p \in preds}
         IN answers \X predictions

(***************************************************************************)
(* DijkstraRouter.suggest_alternatives.                                    *)
(***************************************************************************)
delay_increments == <<300, 600, 900>>

Min(a, b) == IF a <= b THEN a ELSE b

\* any(seg.transfer_rating in ["risky", "unlikely"] for seg in segments)
HasRiskyTransfers(r) ==
    \E i \in 1..Len(r.segments) : r.segments[i].transfer_rating \in {"risky", "unlikely"}

\* variant: only "unlikely" transfers disqualify a candidate
AllTransfersNotUnlikely(r) ==
    \A i \in 1..Len(r.segments) : r.segments[i].transfer_rating # "unlikely"

\* all(seg.transfer_rating == "likely" or seg.transfer_rating is None ...)
AllTransfersLikely(r) ==
    \A i \in 1..Len(r.segments) : r.segments[i].transfer_rating \in {"likely", None}

\* variant: the total is measured from the delayed search start
AltAcceptSearchTotal(a, alt_route) ==
    LET recalculated ==
            IF alt_route.arrival_time # NoneNum
            THEN [alt_route EXCEPT !.total_time_seconds =
                                       alt_route.arrival_time - alt_route.departure_time]
            ELSE alt_route
        keep == IF a.has_risky_transfers THEN AllTransfersLikely(recalculated) ELSE TRUE
    IN [a EXCEPT !.alternatives = IF keep THEN Append(@, recalculated) ELSE @,
                 !.delay_idx = @ + 1]

\* the recalculation of total_time_seconds and the risk filter, then append
AltAccept(a, alt_route) ==
    LET recalculated ==
            IF alt_route.arrival_time # NoneNum /\ a.request_time # NoneNum
            THEN [alt_route EXCEPT !.total_time_seconds =
                                       alt_route.arrival_time - a.request_time]
            ELSE alt_route
        keep == IF a.has_risky_transfers THEN AllTransfersLikely(recalculated) ELSE TRUE
    IN [a EXCEPT !.alternatives = IF keep THEN Append(@, recalculated) ELSE @,
                 !.delay_idx = @ + 1]

\* variant: an alternative arriving with the primary route is kept
ArrivesNoEarlier(alt_route, primary_route) ==
    alt_route.arrival_time # NoneNum /\ alt_route.arrival_time >= primary_route.arrival_time

\* alt.arrival_time and alt.arrival_time > primary_route.arrival_time
ArrivesLater(alt_route, primary_route) ==
    alt_route.arrival_time # NoneNum /\ alt_route.arrival_time > primary_route.arrival_time

FilterLater(alternatives, primary_route) ==
    IF primary_route.arrival_time # NoneNum
    THEN SelectSeq(alternatives, LAMBDA r : ArrivesLater(r, primary_route))
    ELSE alternatives

\* list.sort(key=arrival_time): stable, ascending
RECURSIVE InsertByArrival(_, _)
InsertByArrival(sorted, r) ==
    IF sorted = <<>> THEN <<r>>
    ELSE IF r.arrival_time < sorted[Len(sorted)].arrival_time
    THEN Append(InsertByArrival(SubSeq(sorted, 1, Len(sorted) - 1), r), sorted[Len(sorted)])
    ELSE Append(sorted, r)

RECURSIVE SortByArrival(_)
SortByArrival(routes) ==
    IF routes = <<>> THEN <<>>
    ELSE InsertByArrival(SortByArrival(SubSeq(routes, 1, Len(routes) - 1)),
                         routes[Len(routes)])

\* alternatives[:max_alternatives]
Cap(routes, max_alternatives) == SubSeq(routes, 1, Min(max_alternatives, Len(routes)))

\* the loop has ended: delays exhausted, or enough alternatives collected
AltLoopEnded(a) ==
    a.delay_idx > Len(delay_increments) \/ Len(a.alternatives) >= a.max_alternatives

\* the code after the loop: filter, sort, cap, return
AltReturn(a) ==
    [a EXCEPT !.result = Cap(SortByArrival(FilterLater(a.alternatives, a.primary_route)),
                             a.max_alternatives),
              !.returned = TRUE]

\* control after one iteration of the loop
AltAdvance(a) ==
    IF AltLoopEnded(a)
    THEN alt' = AltReturn(a) /\ pc' = "alt_done"
    ELSE alt' = a /\ pc' = "alternatives"

AltIdle ==
    [primary_route |-> NoRoute, request_time |-> NoneNum, has_risky_transfers |-> FALSE,
     alternatives |-> <<>>, delay_idx |-> 1, max_alternatives |-> 0, result |-> <<>>,
     returned |-> FALSE]

(***************************************************************************)
(* Actions of the Dijkstra pipeline.                                       *)
(***************************************************************************)
\* find_route up to the first await: phase 1, then the entry of phase 2
FindRoute ==
    /\ pc = "find_route"
    /\ LET found == FindShortestPath(request.start_station_id, request.end_station_id)
       IN IF ~found.found \/ found.path = <<>>
          THEN /\ pc' = "done"
               /\ route' = NoRoute
               /\ UNCHANGED <<handler, path, enrich>>
          ELSE /\ pc' = "enrich"
               /\ path' = found.path
               /\ enrich' = EnrichStart(request.departure_time, request.request_time)
               /\ UNCHANGED route
    /\ UNCHANGED <<handler, request, caller, alt, search, probe>>

\* the Route goes back to whoever awaited find_route
ReturnRoute(r) ==
    IF caller = "find_route"
    THEN pc' = "done" /\ route' = r /\ UNCHANGED alt
    ELSE AltAdvance(AltAccept(alt, r)) /\ UNCHANGED route

\* one edge of the path is enriched; after the last one the Route is built
EnrichStep(kinds, preds) ==
    /\ pc = "enrich"
    /\ \E c \in SourceAnswers(enrich, path[enrich.i], request.mbta_client,
                              request.walking_speed_kmh, kinds, preds) :
          LET en == EnrichEdge(enrich, path[enrich.i], request.mbta_client,
                               request.walking_speed_kmh, c[1], c[2])
          IN /\ enrich' = en
             /\ IF en.i > Len(path)
                THEN ReturnRoute(BuildRoute(en))
                ELSE UNCHANGED <<handler, pc, route, alt>>
    /\ UNCHANGED <<handler, request, caller, path, search, probe>>

EnrichWithRealtime == EnrichStep(DepartureKinds, PredictionKinds)

T0 == 1000

EnrichIdle == EnrichStart(T0, NoneNum)

SearchIdle == [on |-> FALSE]

ProbeIdle == [on |-> FALSE]

HandlerIdle == [on |-> FALSE]

\* the calls made on the router: origins that reach every kind of edge, and an
\* origin that is no station of the graph
Origins == {"place-harsq", "place-dwnxg", "place-state", "place-lech", "place-unknown"}

Requests ==
    { r \in [start_station_id : Origins,
             end_station_id : Nodes \cup {"place-unknown"},
             departure_time : {T0},
             mbta_client : BOOLEAN,
             walking_speed_kmh : {5, 3, 0},
             request_time : {NoneNum, T0 - 120}] :
        r.request_time = NoneNum \/ r.walking_speed_kmh = 5 }

Init ==
    /\ pc = "find_route"
    /\ request \in Requests
    /\ caller = "find_route"
    /\ path = <<>>
    /\ enrich = EnrichIdle
    /\ route = NoRoute
    /\ alt = AltIdle
    /\ search = SearchIdle
    /\ probe = ProbeIdle
    /\ handler = HandlerIdle

Next == FindRoute \/ EnrichWithRealtime

Spec == Init /\ [][Next]_vars

(***************************************************************************)
(* Actions of suggest_alternatives.  The candidate at each delay is found  *)
(* by find_route, whose enrichment steps are the EnrichStep above.         *)
(***************************************************************************)
\* entry: has_risky_transfers, the default of request_time, the empty list
SuggestAlternatives ==
    /\ pc = "suggest_alternatives"
    /\ AltAdvance([primary_route |-> request.primary_route,
                   request_time |-> IF request.request_time = NoneNum
                                    THEN request.primary_route.departure_time
                                    ELSE request.request_time,
                   has_risky_transfers |-> HasRiskyTransfers(request.primary_route),
                   alternatives |-> <<>>,
                   delay_idx |-> 1,
                   max_alternatives |-> request.max_alternatives,
                   result |-> <<>>,
                   returned |-> FALSE])
    /\ UNCHANGED <<handler, request, caller, path, enrich, route, search, probe>>

\* one pass of "for delay_seconds in delay_increments" up to the first await
AltTryDelay ==
    /\ pc = "alternatives"
    /\ LET adjusted_departure == alt.primary_route.departure_time
                                 + delay_increments[alt.delay_idx]
           found == FindShortestPath(request.start_station_id, request.end_station_id)
       IN IF ~found.found \/ found.path = <<>>
          THEN /\ AltAdvance([alt EXCEPT !.delay_idx = @ + 1])
               /\ UNCHANGED <<handler, path, enrich>>
          ELSE /\ pc' = "enrich"
               /\ path' = found.path
               /\ enrich' = EnrichStart(adjusted_departure, alt.request_time)
               /\ UNCHANGED alt
    /\ UNCHANGED <<handler, request, caller, route, search, probe>>

EnrichAlternative == EnrichStep(AltDepartureKinds, AltPredictionKinds)

MaxAlternatives == 3

\* a primary route as the caller holds it: one train segment, as in
\* test_alternative_routes.py
PrimaryRoute(rating, arrival_time) ==
    Route(<<RouteSegment("place-harsq", "place-gover", "train", "Red Line", "Red", 450,
                         3400, T0, arrival_time, "Scheduled", rating,
                         IF rating = None THEN NoneNum ELSE 150,
                         IF rating = None THEN NoneNum ELSE 180)>>,
          IF arrival_time = NoneNum THEN 1630 ELSE arrival_time - T0, 3400, 0, T0,
          arrival_time)

PrimaryRoutes ==
    {PrimaryRoute(None, T0 + 1630), PrimaryRoute("risky", T0 + 1630),
     PrimaryRoute("unlikely", NoneNum)}

AltRequests ==
    [primary_route : PrimaryRoutes,
     start_station_id : {"place-harsq", "place-unknown"},
     end_station_id : {"place-gover"},
     mbta_client : {TRUE},
     walking_speed_kmh : {5},
     request_time : {NoneNum, T0 - 120},
     max_alternatives : 0..MaxAlternatives]

InitAlt ==
    /\ pc = "suggest_alternatives"
    /\ request \in AltRequests
    /\ caller = "suggest_alternatives"
    /\ path = <<>>
    /\ enrich = EnrichIdle
    /\ route = NoRoute
    /\ alt = AltIdle
    /\ search = SearchIdle
    /\ probe = ProbeIdle
    /\ handler = HandlerIdle

NextAlt == SuggestAlternatives \/ AltTryDelay \/ EnrichAlternative

SpecAlt == InitAlt /\ [][NextAlt]_vars

(***************************************************************************)
(* TransitGraph (route_planner.py): the snapshot the time-aware search     *)
(* runs on.  Stations carry the lines they serve; the haversine distance   *)
(* between two stations is tabulated in metres.                            *)
(***************************************************************************)
MAX_EXPLORATIONS == 2000

\* the rapid-transit stations of the snapshot
CoreStations ==
    {"place-knncl", "place-chmnl", "place-pktrm", "place-gover", "place-bomnl",
     "place-haecl", "place-north", "place-spmnl", "place-unsqu"}

\* a commuter line long enough for a search to use up MAX_EXPLORATIONS: stop
\* k is "place-DB-" followed by k in four digits
LineStops == 0..MAX_EXPLORATIONS

LineStopId(k) ==
    "place-DB-" \o (IF k < 10 THEN "000" ELSE IF k < 100 THEN "00"
                    ELSE IF k < 1000 THEN "0" ELSE "") \o ToString(k)

LineStopIds == [k \in LineStops |-> LineStopId(k)]

LineStopNodes ==
    [k \in LineStops |-> [lines |-> {"Fairmount Line"}, rank |-> k - MAX_EXPLORATIONS - 1]]

\* station id -> node; the rank is the place of the id in string order
SearchNodes ==
    [s \in CoreStations \cup {LineStopIds[k] : k \in LineStops} |->
        IF s \notin CoreStations
        THEN LineStopNodes[CHOOSE k \in LineStops : LineStopIds[k] = s]
        ELSE
        CASE s = "place-knncl" -> [lines |-> {"Red Line"}, rank |-> 5]
          [] s = "place-chmnl" -> [lines |-> {"Red Line"}, rank |-> 2]
          [] s = "place-pktrm" -> [lines |-> {"Red Line", "Green Line"}, rank |-> 7]
          [] s = "place-gover" -> [lines |-> {"Green Line", "Blue Line"}, rank |-> 3]
          [] s = "place-haecl" -> [lines |-> {"Orange Line", "Green Line"}, rank |-> 4]
          [] s = "place-north" -> [lines |-> {"Orange Line", "Green Line"}, rank |-> 6]
          [] s = "place-spmnl" -> [lines |-> {"Green Line"}, rank |-> 8]
          [] s = "place-unsqu" -> [lines |-> {"Green Line"}, rank |-> 9]
          [] OTHER -> [lines |-> {"Blue Line"}, rank |-> 1]]

SearchEdges ==
    << [from |-> "place-knncl", to |-> "place-chmnl", type |-> "train",
        line |-> "Red Line", route_id |-> "Red", route_type |-> 1,
        time_seconds |-> 120, distance_meters |-> 1000],
       [from |-> "place-chmnl", to |-> "place-pktrm", type |-> "train",
        line |-> "Red Line", route_id |-> "Red", route_type |-> 1,
        distance_meters |-> 600],
       [from |-> "place-pktrm", to |-> "place-gover", type |-> "train",
        line |-> "Green Line", route_id |-> "Green-D", route_type |-> 0,
        time_seconds |-> 90, distance_meters |-> 400],
       [from |-> "place-pktrm", to |-> "place-gover", type |-> "train",
        line |-> "Green Line", route_id |-> "Green-E", route_type |-> 0,
        time_seconds |-> 80, distance_meters |-> 400],
       [from |-> "place-gover", to |-> "place-bomnl", type |-> "train",
        line |-> "Blue Line", route_id |-> "Blue", route_type |-> 1,
        time_seconds |-> 60, distance_meters |-> 200],
       WalkEdge("place-chmnl", "place-gover", 420, 300),
       WalkEdge("place-chmnl", "place-bomnl", 410, 400),
       WalkEdge("place-pktrm", "place-chmnl", 200, 250),
       WalkEdge("place-knncl", "place-chmnl", 0, 1000),
       [from |-> "place-haecl", to |-> "place-north", type |-> "train",
        line |-> "Orange Line", route_id |-> "Orange", route_type |-> 1,
        time_seconds |-> 100, distance_meters |-> 400],
       [from |-> "place-haecl", to |-> "place-north", type |-> "train",
        line |-> "Green Line", route_id |-> "Green-E", route_type |-> 0,
        time_seconds |-> 150, distance_meters |-> 400],
       [from |-> "place-north", to |-> "place-spmnl", type |-> "train",
        line |-> "Green Line", route_id |-> "Green-E", route_type |-> 0,
        time_seconds |-> 50, distance_meters |-> 500],
       [from |-> "place-gover", to |-> "place-unsqu", type |-> "train",
        line |-> "Green Line", route_id |-> "Green-E", route_type |-> 0,
        time_seconds |-> 110, distance_meters |-> 700] >>
    \o [k \in 1..MAX_EXPLORATIONS |->
          [from |-> LineStopIds[k - 1], to |-> LineStopIds[k], type |-> "train",
           line |-> "Fairmount Line", route_id |-> "CR-Fairmount", route_type |-> 2,
           time_seconds |-> 60, distance_meters |-> 900]]

SearchAdjacency(s) == SelectSeq(SearchEdges, LAMBDA e : e.from = s)

HaversineTable ==
    [p \in {q \in SUBSET CoreStations : Cardinality(q) = 2} |->
        CASE p = {"place-knncl", "place-chmnl"} -> 1000
          [] p = {"place-knncl", "place-pktrm"} -> 1500
          [] p = {"place-knncl", "place-gover"} -> 1300
          [] p = {"place-knncl", "place-bomnl"} -> 1400
          [] p = {"place-chmnl", "place-pktrm"} -> 600
          [] p = {"place-chmnl", "place-gover"} -> 300
          [] p = {"place-chmnl", "place-bomnl"} -> 400
          [] p = {"place-pktrm", "place-gover"} -> 400
          [] p = {"place-pktrm", "place-bomnl"} -> 600
          [] p = {"place-gover", "place-bomnl"} -> 200
          [] p = {"place-haecl", "place-north"} -> 400
          [] p = {"place-north", "place-spmnl"} -> 500
          [] p = {"place-haecl", "place-spmnl"} -> 900
          [] OTHER -> 2000]

\* _haversine_distance: 0.0 when a station is unknown
haversine_distance(station_id_1, station_id_2) ==
    IF station_id_1 \notin DOMAIN SearchNodes \/ station_id_2 \notin DOMAIN SearchNodes
    THEN 0
    ELSE IF station_id_1 = station_id_2 THEN 0
    ELSE IF {station_id_1, station_id_2} \subseteq CoreStations
    THEN HaversineTable[{station_id_1, station_id_2}]
    ELSE 2000

\* the A* term: haversine / 20.0
Heuristic(station, end_station_id) == haversine_distance(station, end_station_id) \div 20

\* the stations a breadth-first walk over the train edges of one line reaches
RECURSIVE ReachableOnLine(_, _)
ReachableOnLine(reached, current_line) ==
    LET more == {SearchEdges[i].to : i \in
                    {j \in 1..Len(SearchEdges) :
                        /\ SearchEdges[j].from \in reached
                        /\ EdgeGet(SearchEdges[j], "type", None) = "train"
                        /\ EdgeGet(SearchEdges[j], "line", None) = current_line}}
    IN IF more \subseteq reached THEN reached
       ELSE ReachableOnLine(reached \cup more, current_line)

is_destination_reachable_on_line(current_station, destination, current_line) ==
    IF ~Truthy(current_line) THEN FALSE
    ELSE destination \in ReachableOnLine({current_station}, current_line)

\* _find_walking_edges_to_destination: the first direct walk edge, or <<>>
find_walking_edges_to_destination(start_station, end_station) ==
    SelectSeq(SearchAdjacency(start_station),
              LAMBDA e : EdgeGet(e, "type", None) = "walk" /\ e.to = end_station)

\* datetime.isoformat() and datetime.fromisoformat()
IsoFormat(t) == [iso |-> t]

FromIsoFormat(text) == text.iso

\* TransitGraph._build_route
RECURSIVE BuildSegments(_, _)
BuildSegments(edges, i) ==
    IF i > Len(edges) THEN <<>>
    ELSE LET edge == edges[i]
             seg_departure == IF "departure_time" \in DOMAIN edge
                              THEN FromIsoFormat(edge.departure_time) ELSE NoneNum
             seg_arrival == IF "arrival_time" \in DOMAIN edge
                            THEN FromIsoFormat(edge.arrival_time) ELSE NoneNum
         IN <<RouteSegment(edge.from, edge.to, edge.type, EdgeGet(edge, "line", None),
                           EdgeGet(edge, "route_id", None),
                           EdgeGet(edge, "time_seconds", 0),
                           EdgeGet(edge, "distance_meters", 0), seg_departure, seg_arrival,
                           EdgeGet(edge, "status", None), None, NoneNum, NoneNum)>>
            \o BuildSegments(edges, i + 1)

RECURSIVE SumOf(_, _, _)
SumOf(segments, field, i) ==
    IF i > Len(segments) THEN 0 ELSE segments[i][field] + SumOf(segments, field, i + 1)

\* "Count transfers": the line of the last train edge is compared, walks in between or not
RECURSIVE CountTransfers(_, _, _)
CountTransfers(edges, i, current_line) ==
    IF i > Len(edges) THEN 0
    ELSE IF EdgeGet(edges[i], "type", None) = "train"
    THEN (IF Truthy(current_line) /\ EdgeGet(edges[i], "line", None) # current_line
          THEN 1 ELSE 0)
         + CountTransfers(edges, i + 1, EdgeGet(edges[i], "line", None))
    ELSE CountTransfers(edges, i + 1, current_line)

build_route(edges) ==
    LET segments == BuildSegments(edges, 1)
        departures == SelectSeq(segments, LAMBDA g : g.departure_time # NoneNum)
        arrivals == SelectSeq(segments, LAMBDA g : g.arrival_time # NoneNum)
    IN Route(segments, SumOf(segments, "time_seconds", 1),
             SumOf(segments, "distance_meters", 1), CountTransfers(edges, 1, None),
             IF departures = <<>> THEN NoneNum ELSE departures[1].departure_time,
             IF arrivals = <<>> THEN NoneNum ELSE arrivals[Len(arrivals)].arrival_time)

(***************************************************************************)
(* TransitGraph.find_shortest_path: the static finder.  Its heap holds     *)
(* tuples (total_time, station, path, line); the comparison reaches the    *)
(* paths, which are lists of dicts and cannot be ordered, only when time   *)
(* and station tie.                                                        *)
(***************************************************************************)
\* an item of the heap ties with the new one on every ordered component, so that
\* a comparison between the two would go on to their paths
PathsCompared(pq, item) ==
    \E k \in 1..Len(pq) : pq[k].key = item.key /\ pq[k].path # item.path

StaticItem(total_time, station, item_path, line) ==
    [key |-> <<total_time, SearchNodes[station].rank>>, total_time |-> total_time,
     current_station |-> station, path |-> item_path, current_line |-> line]

\* float('inf') when the station has no entry
BestTime(best_times, station) ==
    IF station \in DOMAIN best_times THEN best_times[station] ELSE 1000000000

\* "Explore neighbors" of one popped tuple
RECURSIVE StaticExplore(_, _, _, _, _)
StaticExplore(st, edges, i, cur, TRANSFER_PENALTY) ==
    IF i > Len(edges) \/ st.raised THEN st
    ELSE LET edge == edges[i]
             next_station == edge.to
             edge_time == EdgeGet(edge, "time_seconds", 0)
             transfer_penalty ==
                 IF /\ Truthy(cur.current_line)
                    /\ EdgeGet(edge, "type", None) = "train"
                    /\ EdgeGet(edge, "line", None) # cur.current_line
                 THEN TRANSFER_PENALTY ELSE 0
             total_time == cur.total_time + edge_time + transfer_penalty
             best == BestTime(st.best_times, next_station)
             new_line == IF EdgeGet(edge, "type", None) = "train"
                         THEN EdgeGet(edge, "line", None) ELSE cur.current_line
             item == StaticItem(total_time, next_station, Append(cur.path, edge), new_line)
         IN IF EdgeGet(edge, "type", None) = "train" /\ "time_seconds" \notin DOMAIN edge
            THEN StaticExplore(st, edges, i + 1, cur, TRANSFER_PENALTY)
            ELSE IF total_time < best
            THEN StaticExplore([pq |-> HeapPush(st.pq, item),
                                best_times |-> (next_station :> total_time) @@ st.best_times,
                                raised |-> PathsCompared(st.pq, item)],
                               edges, i + 1, cur, TRANSFER_PENALTY)
            ELSE StaticExplore(st, edges, i + 1, cur, TRANSFER_PENALTY)

\* "while pq": the popped path at the destination, or nothing
RECURSIVE StaticLoop(_, _, _)
StaticLoop(st, end_station_id, TRANSFER_PENALTY) ==
    IF st.raised THEN [found |-> FALSE, raised |-> TRUE]
    ELSE IF st.pq = <<>> THEN [found |-> FALSE, raised |-> FALSE]
    ELSE LET popped == HeapPop(st.pq)
             cur == popped.item
             rest == [st EXCEPT !.pq = popped.heap]
         IN IF cur.current_station = end_station_id
            THEN [found |-> TRUE, raised |-> FALSE, path |-> cur.path,
                  total_time |-> cur.total_time]
            ELSE IF cur.total_time > BestTime(st.best_times, cur.current_station)
            THEN StaticLoop(rest, end_station_id, TRANSFER_PENALTY)
            ELSE StaticLoop(StaticExplore(rest, SearchAdjacency(cur.current_station), 1, cur,
                                          TRANSFER_PENALTY),
                            end_station_id, TRANSFER_PENALTY)

\* variant: an endpoint that is no station raises
find_shortest_path_unchecked(start_station_id, end_station_id, prefer_fewer_transfers) ==
    IF start_station_id \notin DOMAIN SearchNodes \/ end_station_id \notin DOMAIN SearchNodes
    THEN [found |-> FALSE, raised |-> TRUE]
    ELSE StaticLoop([pq |-> <<StaticItem(0, start_station_id, <<>>, None)>>,
                     best_times |-> (start_station_id :> 0), raised |-> FALSE],
                    end_station_id, IF prefer_fewer_transfers THEN 180 ELSE 0)

find_shortest_path(start_station_id, end_station_id, prefer_fewer_transfers) ==
    IF start_station_id \notin DOMAIN SearchNodes \/ end_station_id \notin DOMAIN SearchNodes
    THEN [found |-> FALSE, raised |-> FALSE]
    ELSE StaticLoop([pq |-> <<StaticItem(0, start_station_id, <<>>, None)>>,
                     best_times |-> (start_station_id :> 0), raised |-> FALSE],
                    end_station_id, IF prefer_fewer_transfers THEN 180 ELSE 0)

(***************************************************************************)
(* TransitGraph.find_time_aware_path: the label-setting search.            *)
(***************************************************************************)
Raised == [segments |-> <<>>, none |-> TRUE, raised |-> TRUE]

\* a queue item; the heap compares the tuples, so sort_key, then the arrival,
\* then the station id
SearchItem(sort_key, current_arrival, current_station, item_path, num_transfers, current_line) ==
    [key |-> sort_key \o <<current_arrival, SearchNodes[current_station].rank>>,
     current_arrival |-> current_arrival, current_station |-> current_station,
     path |-> item_path, num_transfers |-> num_transfers, current_line |-> current_line]

SortKey(prefer_fewer_transfers, transfers, estimated_total_time) ==
    IF prefer_fewer_transfers THEN <<transfers, estimated_total_time>>
    ELSE <<estimated_total_time, transfers>>

LabelsAt(best_labels, station) ==
    IF station \in DOMAIN best_labels THEN best_labels[station] ELSE <<>>

\* next_lines & end_lines
SharesLineWithDestination(next_station, end_station_id) ==
    /\ next_station \in DOMAIN SearchNodes
    /\ end_station_id \in DOMAIN SearchNodes
    /\ SearchNodes[next_station].lines \cap SearchNodes[end_station_id].lines # {}

\* the three walking rules: TRUE when the walk edge is passed over
WalkSkipped(cur, edge, edges, end_station_id) ==
    LET next_station == edge.to
        walk_time == EdgeGet(edge, "time_seconds", 0)
        walk_distance == EdgeGet(edge, "distance_meters", 0)
        serves_trains == \E k \in 1..Len(edges) : EdgeGet(edges[k], "type", None) = "train"
        stations_reachable_by_current_line ==
            IF Truthy(cur.current_line)
            THEN {edges[k].to : k \in {j \in 1..Len(edges) :
                      /\ EdgeGet(edges[j], "type", None) = "train"
                      /\ EdgeGet(edges[j], "line", None) = cur.current_line}}
            ELSE {}
        better == SharesLineWithDestination(next_station, end_station_id)
    IN \/ /\ Truthy(cur.current_line)
          /\ \/ is_destination_reachable_on_line(cur.current_station, end_station_id,
                                                 cur.current_line)
             \/ next_station \in stations_reachable_by_current_line
       \/ IF cur.current_line = None
          THEN walk_time > (IF better THEN 480 ELSE 300)
          ELSE IF better THEN walk_time > 420
               ELSE serves_trains /\ (walk_time > 240 \/ walk_distance > 300)
       \/ /\ ~better
          /\ haversine_distance(next_station, end_station_id)
                > haversine_distance(cur.current_station, end_station_id) + 200

\* edge.get("time_seconds"), or the default of the route type
SegmentTime(edge) ==
    IF EdgeGet(edge, "time_seconds", 0) # 0 THEN edge.time_seconds
    ELSE LET rt == EdgeGet(edge, "route_type", 1)
         IN IF rt = 2 THEN 180 ELSE IF rt = 1 THEN 120 ELSE 150

SkipEdge == [skip |-> TRUE]

\* variant: the two minutes of a transfer are not asked for
ValidDepsNoSlack(deps, current_arrival, is_transfer) ==
    SelectSeq(deps, LAMBDA d : d.departure_time >= current_arrival)

\* valid_deps: at or after the arrival, and two minutes after it on a transfer
ValidDeps(deps, current_arrival, is_transfer) ==
    LET on_time == SelectSeq(deps, LAMBDA d : d.departure_time >= current_arrival)
    IN IF is_transfer
       THEN SelectSeq(on_time, LAMBDA d : d.departure_time >= current_arrival + 120)
       ELSE on_time

\* variant: the transfer count is never tested
ExceedsMaxTransfersNever(is_transfer, new_transfers, max_transfers) == FALSE

\* if is_transfer: new_transfers += 1; if new_transfers > max_transfers: continue
ExceedsMaxTransfers(is_transfer, new_transfers, max_transfers) ==
    is_transfer /\ new_transfers > max_transfers

\* a train edge asks the source unless the rider stays on the line
AsksSource(cur, edge, max_transfers) ==
    LET edge_line == EdgeGet(edge, "line", None)
        is_transfer == cur.current_line # None /\ edge_line # cur.current_line
    IN /\ EdgeGet(edge, "type", "train") = "train"
       /\ Truthy(EdgeGet(edge, "route_id", None))
       /\ ~ExceedsMaxTransfers(is_transfer, cur.num_transfers + 1, max_transfers)
       /\ ~(Truthy(cur.current_line) /\ edge_line = cur.current_line)

\* the cost of one edge: the skip, or the arrival, transfers, line and metadata
EdgeCost(cur, edge, edges, end_station_id, max_transfers, answer) ==
    LET edge_type == EdgeGet(edge, "type", "train")
        edge_line == EdgeGet(edge, "line", None)
        is_transfer == cur.current_line # None /\ edge_line # cur.current_line
        new_transfers == IF is_transfer THEN cur.num_transfers + 1 ELSE cur.num_transfers
    IN IF edge_type = "walk"
       THEN IF WalkSkipped(cur, edge, edges, end_station_id) THEN SkipEdge
            ELSE IF EdgeGet(edge, "time_seconds", 0) = 0 THEN SkipEdge
            ELSE [skip |-> FALSE,
                  next_arrival |-> cur.current_arrival + EdgeGet(edge, "time_seconds", 0),
                  new_transfers |-> cur.num_transfers, new_line |-> None,
                  departure_time |-> NoneNum, status |-> None]
       ELSE IF edge_type = "train"
       THEN IF ~Truthy(EdgeGet(edge, "route_id", None)) THEN SkipEdge
            ELSE IF ExceedsMaxTransfers(is_transfer, new_transfers, max_transfers)
            THEN SkipEdge
            ELSE IF Truthy(cur.current_line) /\ edge_line = cur.current_line
            THEN [skip |-> FALSE, next_arrival |-> cur.current_arrival + SegmentTime(edge),
                  new_transfers |-> new_transfers, new_line |-> edge_line,
                  departure_time |-> NoneNum, status |-> "On Train"]
            ELSE IF answer.raises THEN SkipEdge
            ELSE LET valid_deps ==
                        ValidDeps(answer.departures, cur.current_arrival, is_transfer)
                 IN IF valid_deps = <<>> THEN SkipEdge
                    ELSE [skip |-> FALSE,
                          next_arrival |-> valid_deps[1].departure_time + SegmentTime(edge),
                          new_transfers |-> new_transfers, new_line |-> edge_line,
                          departure_time |-> valid_deps[1].departure_time,
                          status |-> EdgeGet(valid_deps[1], "status", "Scheduled")]
       ELSE [skip |-> FALSE, next_arrival |-> cur.current_arrival,
             new_transfers |-> cur.num_transfers, new_line |-> cur.current_line,
             departure_time |-> NoneNum, status |-> None]

\* edge.copy() with the times and the status written in
NewEdge(cur, edge, cost) ==
    LET fields == DOMAIN edge \cup {"arrival_time", "departure_time"}
                    \cup (IF cost.status # None THEN {"status"} ELSE {})
    IN [f \in fields |->
          IF f = "arrival_time" THEN IsoFormat(cost.next_arrival)
          ELSE IF f = "departure_time"
          THEN (IF cost.departure_time # NoneNum THEN IsoFormat(cost.departure_time)
                ELSE IsoFormat(cur.current_arrival))
          ELSE IF f = "status" /\ cost.status # None THEN cost.status
          ELSE edge[f]]

\* is (new_transfers, next_arrival) dominated by a label kept at the station
IsThisDominated(labels, new_transfers, next_arrival) ==
    \E k \in 1..Len(labels) : labels[k][1] <= new_transfers /\ labels[k][2] <= next_arrival

\* variant: the new label is appended and nothing leaves
NewLabelsKeepAll(labels, new_transfers, next_arrival) ==
    Append(labels, <<new_transfers, next_arrival>>)

\* the labels the new one dominates leave, the new one is appended
NewLabels(labels, new_transfers, next_arrival) ==
    Append(SelectSeq(labels, LAMBDA l : ~(new_transfers <= l[1] /\ next_arrival <= l[2])),
           <<new_transfers, next_arrival>>)

\* "UPDATE PARETO SET & PQ" for one edge
ParetoUpdate(sr, cur, edge, cost, end_station_id, prefer_fewer_transfers) ==
    LET next_station == edge.to
        labels == LabelsAt(sr.best_labels, next_station)
    IN IF cost.skip \/ IsThisDominated(labels, cost.new_transfers, cost.next_arrival)
       THEN sr
       ELSE LET estimated_total_time ==
                    cost.next_arrival + Heuristic(next_station, end_station_id)
                item == SearchItem(SortKey(prefer_fewer_transfers, cost.new_transfers,
                                           estimated_total_time),
                                   cost.next_arrival, next_station,
                                   Append(cur.path, NewEdge(cur, edge, cost)),
                                   cost.new_transfers, cost.new_line)
            IN [sr EXCEPT !.best_labels =
                              (next_station :> NewLabels(labels, cost.new_transfers,
                                                         cost.next_arrival)) @@ @,
                          !.pq = HeapPush(@, item),
                          !.raised = PathsCompared(sr.pq, item)]

\* the departures the source may report to the search, by offset from the arrival
SearchDepartureKinds ==
    { [off |-> -60, status |-> "On time"],
      [off |-> 0, status |-> "Delayed"],
      [off |-> 200] }

SearchAnswers(cur, edge, max_transfers) ==
    IF AsksSource(cur, edge, max_transfers)
    THEN {NoAnswer} \cup
         {[raises |-> FALSE, departures |-> SortedDepartures(S, cur.current_arrival)] :
             S \in {T \in SUBSET SearchDepartureKinds : Cardinality(T) <= DepartureLimit}}
    ELSE {NoAnswer}

\* the early exit: a direct walk under ten minutes
DirectWalkRoute(direct_walk, departure_time) ==
    LET walk_time == EdgeGet(direct_walk, "time_seconds", 0)
    IN Route(<<RouteSegment(direct_walk.from, direct_walk.to, "walk", None, None, walk_time,
                            EdgeGet(direct_walk, "distance_meters", 0), departure_time,
                            departure_time + walk_time, "Walking", None, NoneNum, NoneNum)>>,
             walk_time, EdgeGet(direct_walk, "distance_meters", 0), 0, departure_time,
             departure_time + walk_time)

SearchStart(start_station_id, end_station_id, departure_time, prefer_fewer_transfers) ==
    [on |-> TRUE,
     pq |-> <<SearchItem(SortKey(prefer_fewer_transfers, 0,
                                 departure_time + Heuristic(start_station_id, end_station_id)),
                         departure_time, start_station_id, <<>>, 0, None)>>,
     best_labels |-> (start_station_id :> <<<<0, departure_time>>>>),
     paths_explored |-> 0, raised |-> FALSE]

\* find_time_aware_path up to the search loop
FindTimeAwarePath ==
    /\ pc = "find_time_aware_path"
    /\ LET direct_walk == find_walking_edges_to_destination(request.start_station_id,
                                                            request.end_station_id)
       IN IF ~request.mbta_client
          THEN pc' = "done" /\ route' = Raised /\ UNCHANGED search
          ELSE IF \/ request.start_station_id \notin DOMAIN SearchNodes
                  \/ request.end_station_id \notin DOMAIN SearchNodes
          THEN pc' = "done" /\ route' = NoRoute /\ UNCHANGED search
          ELSE IF direct_walk # <<>> /\ EdgeGet(direct_walk[1], "time_seconds", 0) < 600
          THEN /\ pc' = "done"
               /\ route' = DirectWalkRoute(direct_walk[1], request.departure_time)
               /\ UNCHANGED search
          ELSE /\ pc' = "search"
               /\ search' = SearchStart(request.start_station_id, request.end_station_id,
                                        request.departure_time,
                                        request.prefer_fewer_transfers)
               /\ UNCHANGED route
    /\ UNCHANGED <<handler, request, caller, path, enrich, alt, probe>>

\* variant: the loop gives up after the first pop
LoopEndsAfterFirstPop(pq, paths_explored) == pq = <<>> \/ paths_explored >= 1

\* the negation of "while pq and paths_explored < MAX_EXPLORATIONS"
LoopEnds(pq, paths_explored) == pq = <<>> \/ paths_explored >= MAX_EXPLORATIONS

\* the loop head: the exit, or one pop, the destination test and the edge list
SearchPop ==
    /\ pc = "search"
    /\ IF LoopEnds(search.pq, search.paths_explored)
       THEN pc' = "done" /\ route' = NoRoute /\ UNCHANGED search
       ELSE LET popped == HeapPop(search.pq)
                cur == popped.item
                edges == SearchAdjacency(cur.current_station)
            IN IF cur.current_station = request.end_station_id
               THEN /\ pc' = "done"
                    /\ route' = build_route(cur.path)
                    /\ search' = [on |-> TRUE, pq |-> popped.heap,
                                  best_labels |-> search.best_labels,
                                  paths_explored |-> search.paths_explored + 1,
                                  raised |-> FALSE, cur |-> cur]
               ELSE /\ pc' = IF edges = <<>> THEN "search" ELSE "expand"
                    /\ search' = [on |-> TRUE, pq |-> popped.heap,
                                  best_labels |-> search.best_labels,
                                  paths_explored |-> search.paths_explored + 1,
                                  raised |-> FALSE, cur |-> cur, edges |-> edges,
                                  ei |-> 1, answer |-> NoAnswer]
                    /\ UNCHANGED route
    /\ UNCHANGED <<handler, request, caller, path, enrich, alt, probe>>

\* one edge of the popped station: its cost, with the source's answer when it asks,
\* and the update of the labels and the queue
SearchExpand ==
    /\ pc = "expand"
    /\ LET cur == search.cur
           edge == search.edges[search.ei]
       IN \E answer \in SearchAnswers(cur, edge, request.max_transfers) :
             LET cost == EdgeCost(cur, edge, search.edges, request.end_station_id,
                                  request.max_transfers, answer)
                 sr == ParetoUpdate(search, cur, edge, cost, request.end_station_id,
                                    request.prefer_fewer_transfers)
             IN /\ search' = [sr EXCEPT !.ei = @ + 1, !.answer = answer]
                /\ IF sr.raised
                   THEN pc' = "done" /\ route' = Raised
                   ELSE /\ pc' = IF search.ei + 1 > Len(search.edges)
                                 THEN "search" ELSE "expand"
                        /\ UNCHANGED route
    /\ UNCHANGED <<handler, request, caller, path, enrich, alt, probe>>

MaxTransfers == 2

SearchRequests ==
    [start_station_id : {"place-knncl", "place-chmnl", "place-pktrm", "place-unknown"},
     end_station_id : {"place-bomnl", "place-gover", "place-knncl", "place-unsqu",
                       "place-unknown"},
     departure_time : {T0},
     mbta_client : BOOLEAN,
     prefer_fewer_transfers : BOOLEAN,
     max_transfers : 0..MaxTransfers]

InitPareto ==
    /\ pc = "find_time_aware_path"
    /\ request \in SearchRequests
    /\ caller = "find_time_aware_path"
    /\ path = <<>>
    /\ enrich = EnrichIdle
    /\ route = NoRoute
    /\ alt = AltIdle
    /\ search = SearchIdle
    /\ probe = ProbeIdle
    /\ handler = HandlerIdle

NextPareto == FindTimeAwarePath \/ SearchPop \/ SearchExpand

SpecPareto == InitPareto /\ [][NextPareto]_vars

(***************************************************************************)
(* Properties of the Routes returned by find_route (Spec).                 *)
(***************************************************************************)
Returned == pc = "done" /\ IsRoute(route)

Timed(seg) == seg.departure_time # NoneNum /\ seg.arrival_time # NoneNum

\* C1: every segment of a returned Route that has both times arrives strictly
\* after it departs, walk segments and every train fallback branch included.
C1_ArrivalAfterDeparture ==
    Returned =>
        \A i \in 1..Len(route.segments) :
            Timed(route.segments[i]) =>
                route.segments[i].arrival_time > route.segments[i].departure_time

\* C2: in a returned Route no segment departs before the previous one arrived,
\* and the first segment does not depart before the Route's departure time.
C2_ClockNeverMovesBack ==
    Returned =>
        /\ \A i \in 1..(Len(route.segments) - 1) :
              route.segments[i].arrival_time <= route.segments[i + 1].departure_time
        /\ route.segments # <<>> =>
              route.segments[1].departure_time >= route.departure_time

\* a Route of several segments, one boarded on a live departure after a wait
W_C2_WaitedForLiveDeparture ==
    /\ Returned
    /\ request.mbta_client
    /\ \E i \in 1..(Len(route.segments) - 1) :
          /\ route.segments[i + 1].status = "On time"
          /\ route.segments[i + 1].departure_time > route.segments[i].arrival_time

\* C3: the segments of a returned Route are station-contiguous, start at the
\* origin and end at the destination, whatever edge types the finder chose.
C3_StationContiguous ==
    Returned =>
        /\ \A i \in 1..(Len(route.segments) - 1) :
              route.segments[i].to_station = route.segments[i + 1].from_station
        /\ route.segments # <<>>
        /\ route.segments[1].from_station = request.start_station_id
        /\ route.segments[Len(route.segments)].to_station = request.end_station_id

\* C9: a rated transfer segment carries the slack and the rating that
\* get_transfer_details gives for the previous segment's arrival, this
\* segment's departure and no explicit walk: available time minus the buffer.
C9_SlackIsAvailableMinusBuffer ==
    Returned =>
        \A i \in 2..Len(route.segments) :
            LET seg == route.segments[i]
                prev == route.segments[i - 1]
                details == get_transfer_details(seg.from_station, prev.line, seg.line,
                                                prev.arrival_time, seg.departure_time, 0,
                                                request.walking_speed_kmh)
            IN (seg.type = "train" /\ seg.buffer_seconds # NoneNum
                /\ seg.transfer_rating # None) =>
                   /\ seg.buffer_seconds = details.buffer_seconds
                   /\ seg.slack_time_seconds = details.slack_time_seconds
                   /\ seg.transfer_rating = details.rating

(***************************************************************************)
(* Properties of suggest_alternatives (SpecAlt).                           *)
(***************************************************************************)
AltReturned == pc = "alt_done" /\ alt.returned

\* C6: every returned alternative arrives strictly later than a primary that
\* has an arrival time, the list is ascending by arrival time, and it is no
\* longer than max_alternatives.
C6_LaterSortedCapped ==
    AltReturned =>
        /\ request.primary_route.arrival_time # NoneNum =>
              \A i \in 1..Len(alt.result) :
                  alt.result[i].arrival_time > request.primary_route.arrival_time
        /\ \A i \in 1..(Len(alt.result) - 1) :
              alt.result[i].arrival_time <= alt.result[i + 1].arrival_time
        /\ Len(alt.result) <= request.max_alternatives

\* three candidates were collected: one did not arrive later and was dropped,
\* the other two were returned in the opposite order
W_C6_FilteredAndReordered ==
    /\ AltReturned
    /\ request.primary_route.arrival_time # NoneNum
    /\ Len(alt.alternatives) = 3
    /\ Len(alt.result) = 2
    /\ alt.alternatives[2].arrival_time > alt.alternatives[3].arrival_time
    /\ alt.result = <<alt.alternatives[3], alt.alternatives[2]>>

\* a candidate Route comes back from find_route to suggest_alternatives
CandidateComesBack == pc = "enrich" /\ pc' # "enrich"

\* C7: with a risky or unlikely segment in the primary, every returned
\* alternative has only likely or unrated segments; without one, every
\* candidate found is collected, whatever its ratings.
C7_RiskFilter ==
    /\ [](AltReturned /\ HasRiskyTransfers(request.primary_route) =>
             \A i \in 1..Len(alt.result) :
                 \A j \in 1..Len(alt.result[i].segments) :
                     alt.result[i].segments[j].transfer_rating \in {"likely", None})
    /\ [][CandidateComesBack /\ ~HasRiskyTransfers(request.primary_route) =>
             Len(alt'.alternatives) = Len(alt.alternatives) + 1]_vars

\* risk mode: of three candidates one was rejected for its rating, one returned
W_C7_RejectedAndReturned ==
    /\ AltReturned
    /\ HasRiskyTransfers(request.primary_route)
    /\ alt.delay_idx = 4
    /\ Len(alt.alternatives) < 3
    /\ alt.result # <<>>
    /\ \E j \in 1..Len(alt.result[1].segments) :
          alt.result[1].segments[j].transfer_rating = "likely"

\* the request time the alternatives are measured from
OriginalRequestTime ==
    IF request.request_time = NoneNum THEN request.primary_route.departure_time
    ELSE request.request_time

\* C8: every returned alternative reports its arrival time minus the original
\* request time (the primary's departure time when none is passed), not minus
\* the delayed search start.
C8_TotalFromOriginalRequest ==
    AltReturned =>
        \A i \in 1..Len(alt.result) :
            alt.result[i].total_time_seconds
                = alt.result[i].arrival_time - OriginalRequestTime

\* an alternative searched from a delayed start, measured from an earlier request
W_C8_DelayedStartEarlierRequest ==
    /\ AltReturned
    /\ request.request_time # NoneNum
    /\ alt.result # <<>>
    /\ alt.result[1].departure_time > request.primary_route.departure_time
    /\ alt.result[1].total_time_seconds
          > alt.result[1].arrival_time - alt.result[1].departure_time

(***************************************************************************)
(* Properties of the time-aware search (SpecPareto).                       *)
(***************************************************************************)
Searching == search.on /\ "best_labels" \in DOMAIN search

\* C4: every Route a routing entry point returns has total_time_seconds equal,
\* within one second, to its arrival time minus the request time, so the wait
\* for the first train is counted.  Here the entry point is find_time_aware_path,
\* whose request time is the departure time it was called with.
C4_TotalIsArrivalMinusRequest ==
    (pc = "done" /\ caller = "find_time_aware_path" /\ IsRoute(route)) =>
        /\ route.arrival_time # NoneNum
        /\ route.total_time_seconds - (route.arrival_time - request.departure_time)
              \in {-1, 0, 1}

\* C5: at every point of the search no station keeps two distinct labels of
\* which one has no more transfers and arrives no later than the other.
C5_NoDominatedLabelKept ==
    Searching =>
        \A s \in DOMAIN search.best_labels :
            LET labels == search.best_labels[s]
            IN \A i, j \in 1..Len(labels) :
                  i # j => ~(labels[i][1] <= labels[j][1] /\ labels[i][2] <= labels[j][2])

\* a station keeps two labels that trade transfers against arrival
W_C5_TwoLabelsKept ==
    /\ Searching
    /\ \E s \in DOMAIN search.best_labels :
          LET labels == search.best_labels[s]
          IN /\ Len(labels) >= 2
             /\ labels[1][1] < labels[2][1]
             /\ labels[1][2] > labels[2][2]
(***************************************************************************)
(* rate_transfer on its own (SpecRate): one call for each slack value.     *)
(***************************************************************************)
MaxSlack == 400

RateTransfer ==
    /\ pc = "rate_transfer"
    /\ probe' = [probe EXCEPT !.rating = rate_transfer(probe.slack)]
    /\ pc' = "done"
    /\ UNCHANGED <<handler, request, caller, path, enrich, route, alt, search>>

InitRate ==
    /\ pc = "rate_transfer"
    /\ probe \in [on : {TRUE}, slack : (0 - MaxSlack)..MaxSlack, rating : {None}]
    /\ request = [slack_time_seconds |-> probe.slack]
    /\ caller = "rate_transfer"
    /\ path = <<>>
    /\ enrich = EnrichIdle
    /\ route = NoRoute
    /\ alt = AltIdle
    /\ search = SearchIdle
    /\ handler = HandlerIdle

NextRate == RateTransfer

SpecRate == InitRate /\ [][NextRate]_vars

Rated == pc = "done" /\ caller = "rate_transfer"

MaxSpeed == 40

\* the stations of the buffer table, the key "default", and a station without an entry
BufferStations == DOMAIN STATION_BUFFERS \cup {"place-unknown"}

\* the lines of the adjustment table, a line outside it, a missing and an empty one
BufferLines ==
    {"Red Line", "Green Line", "Orange Line", "Blue Line", "Commuter Rail", "Mattapan",
     None, ""}

CalculateTransferTime ==
    /\ pc = "calculate_transfer_time"
    /\ probe' = [probe EXCEPT !.buffer =
                     calculate_transfer_time(probe.station_id, probe.from_line,
                                             probe.to_line, probe.walking_speed_kmh)]
    /\ pc' = "done"
    /\ UNCHANGED <<handler, request, caller, path, enrich, route, alt, search>>

InitBuffer ==
    /\ pc = "calculate_transfer_time"
    /\ probe \in [on : {TRUE}, station_id : BufferStations, from_line : BufferLines,
                  to_line : BufferLines, walking_speed_kmh : (0 - 1)..MaxSpeed,
                  buffer : {NoneNum}]
    /\ request = [station_id |-> probe.station_id]
    /\ caller = "calculate_transfer_time"
    /\ path = <<>>
    /\ enrich = EnrichIdle
    /\ route = NoRoute
    /\ alt = AltIdle
    /\ search = SearchIdle
    /\ handler = HandlerIdle

NextBuffer == CalculateTransferTime

SpecBuffer == InitBuffer /\ [][NextBuffer]_vars

Buffered == pc = "done" /\ caller = "calculate_transfer_time"

\* C11: at 5 km/h, and at speed 0, calculate_transfer_time is exactly the
\* station's base buffer (60 s without an entry) plus the line-pair adjustment
\* (0 for an unlisted pair or a missing line); at no speed is it below 30 s.
C11_BaselineBufferAndFloor ==
    Buffered =>
        LET base == IF probe.station_id \in DOMAIN STATION_BUFFERS
                    THEN STATION_BUFFERS[probe.station_id] ELSE 60
            pair == <<probe.from_line, probe.to_line>>
            adjustment == IF /\ probe.from_line \notin {None, ""}
                             /\ probe.to_line \notin {None, ""}
                             /\ pair \in DOMAIN LINE_TRANSFER_ADJUSTMENTS
                          THEN LINE_TRANSFER_ADJUSTMENTS[pair] ELSE 0
        IN /\ probe.walking_speed_kmh \in {0, 5} => probe.buffer = base + adjustment
           /\ probe.buffer >= 30

\* Park Street, Red to Green, 5 km/h: 180 + 30
W_C11_ParkStreetRedToGreen ==
    /\ Buffered
    /\ probe.station_id = "place-pktrm"
    /\ probe.from_line = "Red Line" /\ probe.to_line = "Green Line"
    /\ probe.walking_speed_kmh = 5
    /\ probe.buffer = 210
(***************************************************************************)
(* The static finder as an entry point (SpecStatic), and the three finders *)
(* side by side (SpecFinders).                                             *)
(***************************************************************************)
FindShortestPathStatic ==
    /\ pc = "find_shortest_path"
    /\ LET found == find_shortest_path(request.start_station_id, request.end_station_id,
                                       request.prefer_fewer_transfers)
       IN IF found.raised
          THEN route' = Raised /\ UNCHANGED path
          ELSE IF found.found
          THEN route' = build_route(found.path) /\ path' = found.path
          ELSE route' = NoRoute /\ UNCHANGED path
    /\ pc' = "done"
    /\ UNCHANGED <<handler, request, caller, enrich, alt, search, probe>>

StaticRequests ==
    [start_station_id : CoreStations \cup {"place-unknown"},
     end_station_id : CoreStations \cup {"place-unknown"},
     prefer_fewer_transfers : BOOLEAN]

InitStatic ==
    /\ pc = "find_shortest_path"
    /\ request \in StaticRequests
    /\ caller = "find_shortest_path"
    /\ path = <<>>
    /\ enrich = EnrichIdle
    /\ route = NoRoute
    /\ alt = AltIdle
    /\ search = SearchIdle
    /\ probe = ProbeIdle
    /\ handler = HandlerIdle

NextStatic == FindShortestPathStatic

SpecStatic == InitStatic /\ [][NextStatic]_vars

InitFinders == Init \/ InitPareto \/ InitStatic

NextFinders == Next \/ NextPareto \/ NextStatic

SpecFinders == InitFinders /\ [][NextFinders]_vars

\* the stations some sequence of edges leads to, the origin itself included
RECURSIVE LedTo(_, _)
LedTo(edges, reached) ==
    LET more == {edges[i].to : i \in {j \in 1..Len(edges) : edges[j].from \in reached}}
    IN IF more \subseteq reached THEN reached ELSE LedTo(edges, reached \cup more)

\* the finder that ran, on its graph: an endpoint is no station, or no sequence
\* of edges leads from the origin to the destination
NoWayThere ==
    LET dijkstra == caller = "find_route"
        stations == IF dijkstra THEN Nodes ELSE DOMAIN SearchNodes
        edges == IF dijkstra THEN Edges ELSE SearchEdges
    IN \/ request.start_station_id \notin stations
       \/ request.end_station_id \notin stations
       \/ request.end_station_id \notin LedTo(edges, {request.start_station_id})

FinderReturned ==
    /\ pc = "done"
    /\ caller \in {"find_route", "find_time_aware_path", "find_shortest_path"}
    /\ caller = "find_time_aware_path" => request.mbta_client

\* C12: each finder returns None, and does not raise, when an endpoint is not a
\* station of the graph or no sequence of edges leads from origin to destination.
C12_NoneWhenNoWayThere ==
    (FinderReturned /\ NoWayThere) => route = NoRoute

\* the time-aware search ran out of queue between two stations of the graph
W_C12_SearchExhausted ==
    /\ FinderReturned /\ NoWayThere
    /\ caller = "find_time_aware_path"
    /\ request.start_station_id \in DOMAIN SearchNodes
    /\ request.end_station_id \in DOMAIN SearchNodes
    /\ search.on /\ search.paths_explored >= 2 /\ search.pq = <<>>
    /\ route = NoRoute
(***************************************************************************)
(* Routing without live data.                                              *)
(***************************************************************************)
\* the stations reached from a set by train edges of one line
RECURSIVE AlongLine(_, _, _)
AlongLine(edges, reached, line) ==
    LET more == {edges[i].to : i \in
                    {j \in 1..Len(edges) :
                        /\ edges[j].from \in reached
                        /\ EdgeGet(edges[j], "type", "train") = "train"
                        /\ EdgeGet(edges[j], "line", None) = line}}
    IN IF more \subseteq reached THEN reached ELSE AlongLine(edges, reached \cup more, line)

\* origin and destination are two stations of one line of the router's graph
OnTheSameLine ==
    LET edges == IF caller = "find_route" THEN Edges ELSE SearchEdges
        lines == {EdgeGet(edges[i], "line", None) : i \in 1..Len(edges)} \ {None}
    IN /\ request.start_station_id # request.end_station_id
       /\ \E line \in lines :
             request.end_station_id \in AlongLine(edges, {request.start_station_id}, line)

\* the nominal duration of the edge a train segment rides
NominalDuration(seg) ==
    LET edges == IF caller = "find_route" THEN Edges ELSE SearchEdges
        e == CHOOSE x \in SeqToSet(edges) :
                 /\ x.from = seg.from_station /\ x.to = seg.to_station
                 /\ EdgeGet(x, "route_id", None) = seg.route_id
    IN IF caller = "find_route" THEN EdgeGet(e, "time_seconds", 120) ELSE SegmentTime(e)

\* C13: with origin and destination on the same line and no real-time client,
\* the router returns a Route (it neither raises nor returns None) with no
\* transfer, every train segment Scheduled and of the edge's nominal duration.
C13_SameLineNoLiveData ==
    (/\ pc = "done"
     /\ caller \in {"find_route", "find_time_aware_path"}
     /\ ~request.mbta_client
     /\ OnTheSameLine) =>
        /\ IsRoute(route)
        /\ route.num_transfers = 0
        /\ \A i \in 1..Len(route.segments) :
              route.segments[i].type = "train" =>
                 /\ route.segments[i].status = "Scheduled"
                 /\ route.segments[i].time_seconds = NominalDuration(route.segments[i])

\* the same statement for the Dijkstra router alone
DijkstraSameLineNoLiveData == caller = "find_route" => C13_SameLineNoLiveData
(***************************************************************************)
(* The /api/route handler (main.py).  The graph and both routers are       *)
(* loaded.  Each awaited router call is a step of its own; what comes back *)
(* is one of the results the call can produce: a Route, None, or an        *)
(* exception.  The static finder is synchronous and runs on the graph.     *)
(***************************************************************************)
RouterOutcomes == {Raised, NoRoute} \cup PrimaryRoutes

ApiRequests ==
    [station_id_1 : {"place-haecl", "place-spmnl", "place-unknown"},
     station_id_2 : {"place-spmnl", "place-north"},
     prefer_fewer_transfers : BOOLEAN,
     departure_time_parses : BOOLEAN,
     use_realtime : BOOLEAN,
     mbta_client : BOOLEAN]

Called(h, name) == [h EXCEPT !.calls = Append(@, name)]

\* from "if not route: raise HTTPException(404)" to the next await or the response
ApiRespond(h, r) ==
    IF ~IsRoute(r)
    THEN /\ handler' = [h EXCEPT !.response = "404"]
         /\ pc' = "done" /\ route' = r
    ELSE IF HasRiskyTransfers(r) /\ request.use_realtime /\ request.mbta_client
    THEN /\ handler' = Called(h, "DijkstraRouter.suggest_alternatives")
         /\ pc' = "api_alternatives" /\ route' = r
    ELSE /\ handler' = [h EXCEPT !.response = "200"]
         /\ pc' = "done" /\ route' = r

\* "Final fallback to static routing", inside the except block
ApiStaticFallback(h, r) ==
    IF IsRoute(r) THEN ApiRespond(h, r)
    ELSE LET found == find_shortest_path(request.station_id_1, request.station_id_2,
                                         request.prefer_fewer_transfers)
             called == Called(h, "TransitGraph.find_shortest_path")
         IN IF found.raised
            THEN /\ handler' = [called EXCEPT !.response = "500"]
                 /\ pc' = "done" /\ route' = Raised
            ELSE ApiRespond(called, IF found.found THEN build_route(found.path)
                                    ELSE NoRoute)

\* entry: the departure time is parsed and the Dijkstra router is awaited
ApiRoute ==
    /\ pc = "api_route"
    /\ IF ~request.departure_time_parses
       THEN /\ handler' = [handler EXCEPT !.response = "400"]
            /\ pc' = "done"
       ELSE /\ handler' = Called(handler, "DijkstraRouter.find_route")
            /\ pc' = "api_primary"
    /\ UNCHANGED <<request, caller, path, enrich, route, alt, search, probe>>

\* DIJKSTRA_ROUTER.find_route comes back
ApiPrimaryReturns ==
    /\ pc = "api_primary"
    /\ \E outcome \in RouterOutcomes :
          IF outcome = Raised
          THEN IF request.mbta_client /\ request.use_realtime
               THEN /\ handler' = Called(handler, "TransitGraph.find_time_aware_path")
                    /\ pc' = "api_time_aware"
                    /\ UNCHANGED route
               ELSE ApiStaticFallback(handler, NoRoute)
          ELSE ApiRespond(handler, outcome)
    /\ UNCHANGED <<request, caller, path, enrich, alt, search, probe>>

\* TRANSIT_GRAPH.find_time_aware_path comes back; "except: pass"
ApiTimeAwareReturns ==
    /\ pc = "api_time_aware"
    /\ \E outcome \in RouterOutcomes :
          ApiStaticFallback(handler, IF outcome = Raised THEN NoRoute ELSE outcome)
    /\ UNCHANGED <<request, caller, path, enrich, alt, search, probe>>

\* suggest_alternatives comes back: alt_routes[:1], or nothing after an exception
ApiAlternativesReturn ==
    /\ pc = "api_alternatives"
    /\ \E alt_routes \in {<<>>, <<PrimaryRoute(None, T0 + 1630)>>,
                          <<PrimaryRoute(None, T0 + 1630), PrimaryRoute("risky", T0 + 1630)>>} :
       \E raises \in BOOLEAN :
          handler' = [handler EXCEPT !.response = "200",
                                     !.alternative_routes =
                                         IF raises THEN <<>> ELSE Cap(alt_routes, 1)]
    /\ pc' = "done"
    /\ UNCHANGED <<request, caller, path, enrich, route, alt, search, probe>>

InitApi ==
    /\ pc = "api_route"
    /\ request \in ApiRequests
    /\ caller = "api_route"
    /\ path = <<>>
    /\ enrich = EnrichIdle
    /\ route = NoRoute
    /\ alt = AltIdle
    /\ search = SearchIdle
    /\ probe = ProbeIdle
    /\ handler = [on |-> TRUE, calls |-> <<>>, response |-> None,
                  alternative_routes |-> <<>>]

NextApi == ApiRoute \/ ApiPrimaryReturns \/ ApiTimeAwareReturns \/ ApiAlternativesReturn

SpecApi == InitApi /\ [][NextApi]_vars

\* C14: whenever the primary routing attempt fails, by raising or by yielding
\* no route, the handler invokes the static finder before it reports "No route
\* found": a 404 is produced only after TransitGraph.find_shortest_path has
\* been called (and has returned no route).
C14_StaticFinderBefore404 ==
    (handler.on /\ handler.response = "404") =>
        \E k \in 1..Len(handler.calls) :
            handler.calls[k] = "TransitGraph.find_shortest_path"

\* the part the handler does keep: after an exception of the Dijkstra router,
\* a 404 comes only after the static finder
StaticFinderAfterException ==
    (/\ handler.on /\ handler.response = "404"
     /\ \E k \in 1..Len(handler.calls) :
           handler.calls[k] = "TransitGraph.find_time_aware_path") =>
        \E k \in 1..Len(handler.calls) :
            handler.calls[k] = "TransitGraph.find_shortest_path"

(***************************************************************************)
(* The same find_route request made twice.  The graph is the same object   *)
(* in both runs.  The real-time source is fixed lazily: what it answered   *)
(* to a query of the first run it answers to the same query again; a query *)
(* it has not seen may be answered in any way.  The wall clock moves on    *)
(* between the runs.                                                       *)
(***************************************************************************)
RunGap == 45

DepartureTimeNow(departure_time, now) == now

\* "if departure_time is None: departure_time = datetime.now(timezone.utc)"
DepartureTimeOrNow(departure_time, now) ==
    IF departure_time = NoneNum THEN now ELSE departure_time

\* get_next_departures(stop_id=from_station, route_id=route_id, limit=3) and
\* the get_predictions(stop_id=to_station, trip_id=...) that follows it
SourceQuery(edge) == <<edge.from, EdgeGet(edge, "route_id", None), edge.to>>

Answered(log, q) == {l \in log : l.query = q}

\* what the source may answer the first time it is asked
TwiceDepartureKinds == {k \in DepartureKinds : k.off <= 350}

TwicePredictionKinds == {p \in PredictionKinds : p.kind = "empty" \/ (p.kind = "arrival" /\ p.off = 90)}

FindRouteTwice ==
    /\ pc = "find_route"
    /\ LET found == FindShortestPath(request.start_station_id, request.end_station_id)
       IN IF ~found.found \/ found.path = <<>>
          THEN /\ pc' = "done"
               /\ route' = NoRoute
               /\ UNCHANGED <<path, enrich>>
          ELSE /\ pc' = "enrich"
               /\ path' = found.path
               /\ enrich' = EnrichStart(DepartureTimeOrNow(request.departure_time, probe.now),
                                        request.request_time)
               /\ UNCHANGED route
    /\ UNCHANGED <<handler, request, caller, alt, search, probe>>

EnrichReplay ==
    /\ pc = "enrich"
    /\ LET edge == path[enrich.i]
           q == SourceQuery(edge)
           seen == Answered(probe.log, q)
           choices == IF seen # {} THEN {l.answer : l \in seen}
                      ELSE SourceAnswers(enrich, edge, request.mbta_client,
                                         request.walking_speed_kmh,
                                         TwiceDepartureKinds, TwicePredictionKinds)
       IN \E c \in choices :
             LET en == EnrichEdge(enrich, edge, request.mbta_client,
                                  request.walking_speed_kmh, c[1], c[2])
             IN /\ enrich' = en
                /\ probe' = [probe EXCEPT !.log = @ \cup {[query |-> q, answer |-> c]}]
                /\ IF en.i > Len(path)
                   THEN pc' = "done" /\ route' = BuildRoute(en)
                   ELSE UNCHANGED <<pc, route>>
    /\ UNCHANGED <<handler, request, caller, path, alt, search>>

\* the first Route is kept aside and the same request is made again
RunAgain ==
    /\ pc = "done"
    /\ probe.run = 1
    /\ probe' = [probe EXCEPT !.run = 2, !.now = @ + RunGap, !.first = route]
    /\ pc' = "find_route"
    /\ path' = <<>>
    /\ enrich' = EnrichIdle
    /\ route' = NoRoute
    /\ UNCHANGED <<handler, request, caller, alt, search>>

TwiceRequests == {r \in Requests : r.walking_speed_kmh = 5}

InitTwice ==
    /\ pc = "find_route"
    /\ request \in TwiceRequests
    /\ caller = "find_route"
    /\ path = <<>>
    /\ enrich = EnrichIdle
    /\ route = NoRoute
    /\ alt = AltIdle
    /\ search = SearchIdle
    /\ probe = [on |-> TRUE, run |-> 1, now |-> T0, log |-> {}, first |-> NoRoute]
    /\ handler = HandlerIdle

NextTwice == FindRouteTwice \/ EnrichReplay \/ RunAgain

SpecTwice == InitTwice /\ [][NextTwice]_vars

SecondRunDone == probe.on /\ "run" \in DOMAIN probe /\ probe.run = 2 /\ pc = "done"

BranchStations == <<"place-kencl", "place-coecl", "place-pktrm", "place-gover">>

BranchLines == {"B", "Green-D", "Green-E", "Red Line", "Green Line", "walk"}

BranchHop(k, l) ==
    IF l = "walk" THEN WalkEdge(BranchStations[k], BranchStations[k + 1], 120, 150)
    ELSE TrainEdge(BranchStations[k], BranchStations[k + 1], l, l, 120, 800)

BranchPaths == {[k \in 1..3 |-> BranchHop(k, ls[k])] : ls \in [1..3 -> BranchLines]}

EnrichBranches == EnrichStep(TwiceDepartureKinds, TwicePredictionKinds)

InitBranches ==
    /\ pc = "enrich"
    /\ request \in [start_station_id : {"place-kencl"}, end_station_id : {"place-gover"},
                    departure_time : {T0}, mbta_client : BOOLEAN,
                    walking_speed_kmh : {5, 3}, request_time : {NoneNum}]
    /\ caller = "find_route"
    /\ path \in BranchPaths
    /\ enrich = EnrichStart(T0, NoneNum)
    /\ route = NoRoute
    /\ alt = AltIdle
    /\ search = SearchIdle
    /\ probe = ProbeIdle
    /\ handler = HandlerIdle

NextBranches == EnrichBranches

SpecBranches == InitBranches /\ [][NextBranches]_vars

GreenBranchNames == {"B", "C", "D", "E", "Green-B", "Green-C", "Green-D", "Green-E"}

LineFamily(l) == IF l \in GreenBranchNames THEN "Green" ELSE l

ConsecutiveTrains(segs) ==
    {k \in 1..(Len(segs) - 1) : segs[k].type = "train" /\ segs[k + 1].type = "train"}

BranchChanges(segs) ==
    {k \in ConsecutiveTrains(segs) :
        /\ segs[k].line \in GreenBranchNames /\ segs[k + 1].line \in GreenBranchNames
        /\ segs[k].line # segs[k + 1].line}

FamilyChanges(segs) ==
    {k \in ConsecutiveTrains(segs) : LineFamily(segs[k].line) # LineFamily(segs[k + 1].line)}

\* C16: a change between two Green Line branches on consecutive train segments
\* is no transfer (num_transfers is not incremented, no buffer is added to the
\* clock, no rating is attached), while a change between lines of different
\* families on consecutive train segments increments num_transfers by one.
C16_BranchChangeIsNoTransfer ==
    LET segs == enrich.enriched_segments
    IN /\ enrich.num_transfers = Cardinality(FamilyChanges(segs))
       /\ \A k \in BranchChanges(segs) :
             /\ segs[k + 1].transfer_rating = None
             /\ segs[k + 1].slack_time_seconds = NoneNum
             /\ segs[k + 1].buffer_seconds = NoneNum
             /\ segs[k + 1].departure_time >= segs[k].arrival_time
             /\ (~request.mbta_client \/ segs[k + 1].status = "Estimated")
                    => segs[k + 1].departure_time = segs[k].arrival_time

\* B, then Green-D boarded live the moment the B train arrives, then Red Line
W_C16_BranchThenFamilyChange ==
    LET segs == enrich.enriched_segments
    IN /\ pc = "done" /\ Len(segs) = 3
       /\ BranchChanges(segs) = {1} /\ FamilyChanges(segs) = {2}
       /\ segs[2].status = "Delayed"
       /\ segs[2].departure_time = segs[1].arrival_time
       /\ enrich.num_transfers = 1
       /\ segs[3].transfer_rating # None

(***************************************************************************)
(* The walk time as the code computes it, without rounding to seconds: a   *)
(* fraction num/den of seconds.  Speeds are in tenths of a km/h, so        *)
(* distance / (speed * 1000 / 3600) = distance * 36 / tenths.              *)
(***************************************************************************)
walk_time_whole_seconds(edge, tenths) ==
    IF tenths > 0
    THEN [num |-> (EdgeGet(edge, "distance_meters", 0) * 36) \div tenths, den |-> 1]
    ELSE [num |-> EdgeGet(edge, "time_seconds", 0), den |-> 1]

\* walk_time = walk_distance / speed_ms if speed_ms > 0 else edge.get("time_seconds", 0)
walk_time(edge, tenths) ==
    IF tenths > 0
    THEN [num |-> EdgeGet(edge, "distance_meters", 0) * 36, den |-> tenths]
    ELSE [num |-> EdgeGet(edge, "time_seconds", 0), den |-> 1]

MaxWalkSpeed == 60

WalkDistances == {1, 150, 500, 2000}

\* the same walk edge enriched at two walking speeds
EnrichWalk ==
    /\ pc = "walk"
    /\ probe' = [probe EXCEPT
                    !.slow = walk_time(path[1], probe.slow_tenths),
                    !.fast = walk_time(path[1], probe.fast_tenths)]
    /\ pc' = "done"
    /\ UNCHANGED <<handler, request, caller, path, enrich, route, alt, search>>

InitWalk ==
    /\ pc = "walk"
    /\ probe \in [on : {TRUE}, slow_tenths : (0 - 10)..MaxWalkSpeed,
                  fast_tenths : (0 - 10)..MaxWalkSpeed, slow : {None}, fast : {None}]
    /\ probe.slow_tenths <= probe.fast_tenths
    /\ \E d \in WalkDistances, t \in {0, 200} :
          path = <<WalkEdge("place-pktrm", "place-dwnxg", t, d)>>
    /\ request = [walking_speed_tenths |-> probe.slow_tenths]
    /\ caller = "enrich_with_realtime"
    /\ enrich = EnrichIdle
    /\ route = NoRoute
    /\ alt = AltIdle
    /\ search = SearchIdle
    /\ handler = HandlerIdle

NextWalk == EnrichWalk

SpecWalk == InitWalk /\ [][NextWalk]_vars

Walked == pc = "done" /\ probe.on /\ "slow_tenths" \in DOMAIN probe

\* num/den seconds equals distance / (tenths/10 * 1000/3600)
IsDistanceOverSpeed(t, distance, tenths) == t.num * tenths = distance * 36 * t.den

\* C17: a walk segment of positive distance lasts distance / (speed * 1000 / 3600)
\* for every positive speed, strictly less at a higher speed (500 m: 360 s at
\* 5.0 km/h, 600 s at 3.0 km/h); the precomputed walk time is used only when
\* the speed is not positive.
C17_WalkTimeStrictlyDecreasing ==
    Walked =>
        LET edge == path[1]
            d == edge.distance_meters
        IN /\ probe.slow_tenths > 0 => IsDistanceOverSpeed(probe.slow, d, probe.slow_tenths)
           /\ probe.fast_tenths > 0 => IsDistanceOverSpeed(probe.fast, d, probe.fast_tenths)
           /\ probe.slow_tenths <= 0 => probe.slow = [num |-> edge.time_seconds, den |-> 1]
           /\ (0 < probe.slow_tenths /\ probe.slow_tenths < probe.fast_tenths)
                 => probe.fast.num * probe.slow.den < probe.slow.num * probe.fast.den
           /\ (d = 500 /\ probe.slow_tenths = 30 /\ probe.fast_tenths = 50)
                 => probe.slow = [num |-> 600 * 30, den |-> 30]
                    /\ probe.fast = [num |-> 360 * 50, den |-> 50]

\* one metre walked at 5.9 and at 6.0 km/h: less than a second apart
W_C17_CloseSpeeds ==
    /\ Walked
    /\ path[1].distance_meters = 1
    /\ probe.slow_tenths = 59 /\ probe.fast_tenths = 60
    /\ probe.fast.num * probe.slow.den < probe.slow.num * probe.fast.den

(***************************************************************************)
(* The dominance check on pop in find_time_aware_path.                     *)
(***************************************************************************)
\* is_dominated, as the loop over the labels of the popped station computes it
is_dominated(labels, num_transfers, current_arrival) ==
    \E k \in 1..Len(labels) :
        /\ labels[k][1] <= num_transfers /\ labels[k][2] <= current_arrival
        /\ (labels[k][1] < num_transfers \/ labels[k][2] < current_arrival)

PoppedDominated ==
    /\ search.on /\ "cur" \in DOMAIN search
    /\ is_dominated(LabelsAt(search.best_labels, search.cur.current_station),
                    search.cur.num_transfers, search.cur.current_arrival)

\* C18: a popped state strictly dominated by a label retained for its station
\* is discarded without expanding any of its outgoing edges.
C18_DominatedPopNotExpanded ==
    (pc = "expand" /\ search.ei = 1) => ~PoppedDominated

(***************************************************************************)
(* suggest_alternatives: the offsets searched before the cap.              *)
(***************************************************************************)
OffsetsSearched == alt.delay_idx - 1

\* C19: the offsets +5, +10 and +15 minutes are all evaluated and the cap is
\* applied last, to the candidates that pass the risk filter and arrive later
\* than the primary: a result shorter than max_alternatives is returned only
\* after every offset has been searched.
C19_CapAppliedLast ==
    (AltReturned /\ alt.max_alternatives >= 1 /\ Len(alt.result) < alt.max_alternatives)
        => OffsetsSearched = Len(delay_increments)

\* the part that holds: the result is the cap of the later arrivals among the
\* candidates of the offsets that were searched
ResultIsCapOfSearched ==
    AltReturned =>
        /\ Len(alt.result) <= alt.max_alternatives
        /\ \A k \in 1..Len(alt.result) :
              /\ \E j \in 1..Len(alt.alternatives) : alt.alternatives[j] = alt.result[k]
              /\ alt.primary_route.arrival_time # NoneNum
                    => alt.result[k].arrival_time > alt.primary_route.arrival_time

(***************************************************************************)
(* The weight of a path of the static graph, and the least weight of any   *)
(* path between two stations, found by trying every path that enters no    *)
(* station twice.  The line is carried across walk edges, as the finder    *)
(* carries it; a train edge without time_seconds is no edge of the static  *)
(* graph.                                                                  *)
(***************************************************************************)
Infinity == 1000000000

StaticUsable(edge) ==
    ~(EdgeGet(edge, "type", None) = "train" /\ "time_seconds" \notin DOMAIN edge)

LineAfter(line, edge) ==
    IF EdgeGet(edge, "type", None) = "train" THEN EdgeGet(edge, "line", None) ELSE line

EdgeWeight(line, edge, penalty) ==
    EdgeGet(edge, "time_seconds", 0)
    + (IF /\ Truthy(line)
          /\ EdgeGet(edge, "type", None) = "train"
          /\ EdgeGet(edge, "line", None) # line
       THEN penalty ELSE 0)

RECURSIVE PathWeight(_, _, _)
PathWeight(edges, line, penalty) ==
    IF edges = <<>> THEN 0
    ELSE EdgeWeight(line, Head(edges), penalty)
         + PathWeight(Tail(edges), LineAfter(line, Head(edges)), penalty)

SetMin(S) == IF S = {} THEN Infinity ELSE CHOOSE x \in S : \A y \in S : x <= y

RECURSIVE MinWeight(_, _, _, _, _)
MinWeight(station, line, visited, end_station_id, penalty) ==
    IF station = end_station_id THEN 0
    ELSE LET edges == SearchAdjacency(station)
             onward == {k \in 1..Len(edges) :
                           StaticUsable(edges[k]) /\ edges[k].to \notin visited}
         IN SetMin({Min(Infinity,
                        EdgeWeight(line, edges[k], penalty)
                        + MinWeight(edges[k].to, LineAfter(line, edges[k]),
                                    visited \cup {edges[k].to}, end_station_id, penalty))
                    : k \in onward})

StaticReturned == pc = "done" /\ caller = "find_shortest_path" /\ IsRoute(route)

StaticPenalty == IF request.prefer_fewer_transfers THEN 180 ELSE 0

\* C20: the path TransitGraph.find_shortest_path returns has the least total
\* weight of all origin-to-destination paths, the weight being the sum of the
\* edge durations plus the line-change penalty (180 s when
\* prefer_fewer_transfers, else 0) for each train edge whose line differs from
\* the line that reached its source station.
C20_StaticPathIsMinimumWeight ==
    StaticReturned =>
        PathWeight(path, None, StaticPenalty)
            = MinWeight(request.start_station_id, None, {request.start_station_id},
                        request.end_station_id, StaticPenalty)

\* without the penalty the finder is Dijkstra's algorithm and the path is least
StaticPathIsMinimumWithoutPenalty ==
    (StaticReturned /\ ~request.prefer_fewer_transfers) =>
        PathWeight(path, None, 0)
            = MinWeight(request.start_station_id, None, {request.start_station_id},
                        request.end_station_id, 0)

(***************************************************************************)
(* The travel time of a path of the Dijkstra router's graph and the least  *)
(* travel time between two stations, over every path of edges with         *)
(* positive time_seconds that enters no station twice.                     *)
(***************************************************************************)
RECURSIVE TravelTime(_)
TravelTime(edges) ==
    IF edges = <<>> THEN 0
    ELSE EdgeGet(Head(edges), "time_seconds", 0) + TravelTime(Tail(edges))

RECURSIVE MinTravelTime(_, _, _)
MinTravelTime(station, visited, end_station_id) ==
    IF station = end_station_id THEN 0
    ELSE LET edges == Adjacency(station)
             onward == {k \in 1..Len(edges) :
                           /\ EdgeGet(edges[k], "time_seconds", 0) > 0
                           /\ edges[k].to \notin visited}
         IN SetMin({Min(Infinity,
                        edges[k].time_seconds
                        + MinTravelTime(edges[k].to, visited \cup {edges[k].to},
                                        end_station_id))
                    : k \in onward})

PathFound == pc \in {"enrich", "done"} /\ caller = "find_route" /\ path # <<>>

\* C21: the path DijkstraRouter.find_shortest_path returns has the least sum of
\* time_seconds of all origin-to-destination paths over edges with positive
\* time_seconds; the 1-second line-change penalty never makes the router
\* return a path slower than another available one.
C21_PathIsFastest ==
    PathFound =>
        TravelTime(path) = MinTravelTime(request.start_station_id,
                                         {request.start_station_id},
                                         request.end_station_id)

(***************************************************************************)
(* find_time_aware_path against a source with a fixed timetable: every     *)
(* route leaves every stop at the same three times, the three departures   *)
(* get_next_departures(limit=3) reports.                                   *)
(***************************************************************************)
TimetableKinds ==
    { [off |-> 0, status |-> "On time"], [off |-> 250, status |-> "On time"],
      [off |-> 500, status |-> "On time"] }

TimetableAnswer(cur, edge, max_transfers) ==
    IF AsksSource(cur, edge, max_transfers)
    THEN [raises |-> FALSE, departures |-> SortedDepartures(TimetableKinds, T0)]
    ELSE NoAnswer

\* one edge of the popped station, the source answering from the timetable
SearchExpandTimetable ==
    /\ pc = "expand"
    /\ LET cur == search.cur
           edge == search.edges[search.ei]
           answer == TimetableAnswer(cur, edge, request.max_transfers)
           cost == EdgeCost(cur, edge, search.edges, request.end_station_id,
                            request.max_transfers, answer)
           sr == ParetoUpdate(search, cur, edge, cost, request.end_station_id,
                              request.prefer_fewer_transfers)
       IN /\ search' = [sr EXCEPT !.ei = @ + 1, !.answer = answer]
          /\ IF sr.raised
             THEN pc' = "done" /\ route' = Raised
             ELSE /\ pc' = IF search.ei + 1 > Len(search.edges) THEN "search" ELSE "expand"
                  /\ UNCHANGED route
    /\ UNCHANGED <<handler, request, caller, path, enrich, alt, probe>>

TimetableRequests ==
    [start_station_id : CoreStations,
     end_station_id : CoreStations,
     departure_time : {T0},
     mbta_client : {TRUE},
     prefer_fewer_transfers : BOOLEAN,
     max_transfers : 0..MaxTransfers]

InitTimetable ==
    /\ pc = "find_time_aware_path"
    /\ request \in TimetableRequests
    /\ caller = "find_time_aware_path"
    /\ path = <<>>
    /\ enrich = EnrichIdle
    /\ route = NoRoute
    /\ alt = AltIdle
    /\ search = SearchIdle
    /\ probe = ProbeIdle
    /\ handler = HandlerIdle

NextTimetable == FindTimeAwarePath \/ SearchPop \/ SearchExpandTimetable

SpecTimetable == InitTimetable /\ [][NextTimetable]_vars

\* every itinerary the transition rules allow from a state, as the pair
\* <<transfers, arrival>> it reaches the destination with; no station twice
RECURSIVE Itineraries(_, _)
Itineraries(cur, visited) ==
    IF cur.current_station = request.end_station_id
    THEN {<<cur.num_transfers, cur.current_arrival>>}
    ELSE LET edges == SearchAdjacency(cur.current_station)
             After(k) ==
                 LET cost == EdgeCost(cur, edges[k], edges, request.end_station_id,
                                      request.max_transfers,
                                      TimetableAnswer(cur, edges[k], request.max_transfers))
                 IN IF cost.skip \/ edges[k].to \in visited THEN {}
                    ELSE Itineraries([current_station |-> edges[k].to,
                                      current_arrival |-> cost.next_arrival,
                                      num_transfers |-> cost.new_transfers,
                                      current_line |-> cost.new_line],
                                     visited \cup {edges[k].to})
         IN UNION {After(k) : k \in 1..Len(edges)}

FeasibleItineraries ==
    Itineraries([current_station |-> request.start_station_id,
                 current_arrival |-> request.departure_time,
                 num_transfers |-> 0, current_line |-> None],
                {request.start_station_id})

DestinationPopped ==
    /\ pc = "done" /\ caller = "find_time_aware_path" /\ IsRoute(route)
    /\ search.on /\ "cur" \in DOMAIN search
    /\ search.cur.current_station = request.end_station_id

\* C22: the first popped state at the destination is optimal under the chosen
\* order among the itineraries the transition rules and max_transfers allow:
\* fastest first, none arrives earlier; fewer transfers first, none has fewer
\* transfers and none with as many arrives earlier.
C22_FirstPopIsOptimal ==
    DestinationPopped =>
        \A it \in FeasibleItineraries :
            IF request.prefer_fewer_transfers
            THEN /\ it[1] >= search.cur.num_transfers
                 /\ it[1] = search.cur.num_transfers => it[2] >= search.cur.current_arrival
            ELSE it[2] >= search.cur.current_arrival

(***************************************************************************)
(* The transfer cap of find_time_aware_path.                               *)
(***************************************************************************)
\* C23: every state on the priority queue and every label kept in best_labels
\* has a transfer count of at most max_transfers; boarding a train that would
\* raise the count above max_transfers creates no successor.
C23_TransfersWithinMax ==
    (search.on /\ caller = "find_time_aware_path") =>
        /\ \A k \in 1..Len(search.pq) : search.pq[k].num_transfers <= request.max_transfers
        /\ \A st \in DOMAIN search.best_labels :
              \A k \in 1..Len(search.best_labels[st]) :
                  search.best_labels[st][k][1] <= request.max_transfers

\* a state that used up its transfers has passed over a train of another line
W_C23_BoardingRefused ==
    /\ search.on /\ "edges" \in DOMAIN search
    /\ request.max_transfers >= 1
    /\ search.cur.num_transfers = request.max_transfers
    /\ search.cur.current_line # None
    /\ \E k \in 1..Len(search.edges) :
          /\ k < search.ei
          /\ EdgeGet(search.edges[k], "type", "train") = "train"
          /\ EdgeGet(search.edges[k], "line", None) # search.cur.current_line

(***************************************************************************)
(* find_time_aware_path on requests that exhaust the search: along the     *)
(* commuter line, whose far end lies beyond MAX_EXPLORATIONS pops, and     *)
(* between stations no edge sequence joins.                                *)
(***************************************************************************)
ExhaustingRequests ==
    [start_station_id : {LineStopIds[0], "place-gover"},
     end_station_id : {LineStopIds[MAX_EXPLORATIONS], "place-knncl"},
     departure_time : {T0},
     mbta_client : {TRUE},
     prefer_fewer_transfers : BOOLEAN,
     max_transfers : {MaxTransfers}]

InitExhaust ==
    /\ pc = "find_time_aware_path"
    /\ request \in ExhaustingRequests
    /\ caller = "find_time_aware_path"
    /\ path = <<>>
    /\ enrich = EnrichIdle
    /\ route = NoRoute
    /\ alt = AltIdle
    /\ search = SearchIdle
    /\ probe = ProbeIdle
    /\ handler = HandlerIdle

NextExhaust == FindTimeAwarePath \/ SearchPop \/ SearchExpandTimetable

SpecExhaust == InitExhaust /\ [][NextExhaust]_vars /\ WF_vars(NextExhaust)

DestinationNotPopped ==
    "cur" \notin DOMAIN search \/ search.cur.current_station # request.end_station_id

PopsWithinCap ==
    search.on =>
        /\ search.paths_explored <= MAX_EXPLORATIONS
        /\ (pc = "done" /\ DestinationNotPopped) =>
              /\ route = NoRoute
              /\ search.pq = <<>> \/ search.paths_explored = MAX_EXPLORATIONS

\* C24: find_time_aware_path always terminates: it pops at most
\* MAX_EXPLORATIONS states, and when the destination has not been popped by
\* the time the cap is reached or the queue is empty it returns None, not an
\* exception.
C24_TerminatesWithinCap == []PopsWithinCap /\ <>(pc = "done")

\* the cap ended the search with a state still waiting in the queue
W_C24_CapReached ==
    /\ pc = "done" /\ search.on
    /\ search.paths_explored = MAX_EXPLORATIONS
    /\ search.pq # <<>>
    /\ route = NoRoute

(***************************************************************************)
(* The departure a boarding uses in find_time_aware_path.                  *)
(***************************************************************************)
\* the edge SearchExpand has just handled, and the answer it was given
ExpandedEdge == search.edges[search.ei - 1]

JustExpanded == search.on /\ "ei" \in DOMAIN search /\ search.ei > 1

\* the edge was a boarding: a train of a line the rider is not on
Boarded ==
    /\ JustExpanded
    /\ EdgeGet(ExpandedEdge, "type", "train") = "train"
    /\ Truthy(EdgeGet(ExpandedEdge, "route_id", None))
    /\ EdgeGet(ExpandedEdge, "line", None) # search.cur.current_line

\* the departure times of the answer that the boarding may use
AllowedDepartures ==
    LET t == search.cur.current_arrival
        changes == search.cur.current_line # None
                     /\ EdgeGet(ExpandedEdge, "line", None) # search.cur.current_line
        bound == IF changes THEN t + 120 ELSE t
    IN IF search.answer.raises THEN {}
       ELSE {search.answer.departures[k].departure_time :
                k \in {j \in 1..Len(search.answer.departures) :
                          search.answer.departures[j].departure_time >= bound}}

\* the queue items that continue the popped state along the expanded edge
Successors ==
    {k \in 1..Len(search.pq) :
        /\ Len(search.pq[k].path) = Len(search.cur.path) + 1
        /\ SubSeq(search.pq[k].path, 1, Len(search.cur.path)) = search.cur.path
        /\ DOMAIN ExpandedEdge \subseteq DOMAIN search.pq[k].path[Len(search.pq[k].path)]
        /\ \A f \in DOMAIN ExpandedEdge :
              search.pq[k].path[Len(search.pq[k].path)][f] = ExpandedEdge[f]}

\* C25: a boarding from arrival time t uses the earliest departure d of the
\* answer with d >= t, and d >= t + 2 minutes when the rider changes lines;
\* the successor arrives at d plus the travel time of the edge; when no
\* departure qualifies or the lookup raises there is no successor and the
\* search goes on without raising.
C25_EarliestValidDeparture ==
    (Boarded /\ caller = "find_time_aware_path") =>
        IF AllowedDepartures = {}
        THEN Successors = {} /\ route # Raised
        ELSE \A k \in Successors :
                LET d == SetMin(AllowedDepartures)
                    last == search.pq[k].path[Len(search.pq[k].path)]
                IN /\ FromIsoFormat(last.departure_time) = d
                   /\ search.pq[k].current_arrival = d + SegmentTime(ExpandedEdge)
                   /\ FromIsoFormat(last.arrival_time) = d + SegmentTime(ExpandedEdge)

\* a line change boarded the later train: the one at the arrival time came too soon
W_C25_TransferWaitsTwoMinutes ==
    /\ Boarded /\ caller = "find_time_aware_path"
    /\ search.cur.current_line # None
    /\ ~search.answer.raises
    /\ \E j \in 1..Len(search.answer.departures) :
          search.answer.departures[j].departure_time = search.cur.current_arrival
    /\ \E k \in Successors :
          search.pq[k].current_arrival
             = search.cur.current_arrival + 200 + SegmentTime(ExpandedEdge)

\* a boarding whose lookup raised left no successor
W_C25_LookupRaised ==
    /\ Boarded /\ search.answer.raises /\ Successors = {}
    /\ ~ExceedsMaxTransfers(search.cur.current_line # None,
                            search.cur.num_transfers + 1, request.max_transfers)

(***************************************************************************)
(* enrich_with_realtime with the source's answer to each train edge kept   *)
(* beside the segment it produced.                                         *)
(***************************************************************************)
EnrichLogged ==
    /\ pc = "enrich"
    /\ LET edge == path[enrich.i]
       IN \E c \in SourceAnswers(enrich, edge, request.mbta_client,
                                 request.walking_speed_kmh,
                                 TwiceDepartureKinds, TwicePredictionKinds) :
             LET en == EnrichEdge(enrich, edge, request.mbta_client,
                                  request.walking_speed_kmh, c[1], c[2])
             IN /\ enrich' = en
                /\ probe' = [on |-> TRUE, asked |-> TRUE, edge |-> edge, answer |-> c[1],
                             clock |-> BoardingClock(enrich, edge,
                                                     request.walking_speed_kmh),
                             before |-> Len(enrich.enriched_segments)]
                /\ IF en.i > Len(path)
                   THEN pc' = "done" /\ route' = BuildRoute(en)
                   ELSE UNCHANGED <<pc, route>>
    /\ UNCHANGED <<handler, request, caller, path, alt, search>>

InitLogged ==
    /\ pc = "enrich"
    /\ request \in [start_station_id : {"place-kencl"}, end_station_id : {"place-gover"},
                    departure_time : {T0}, mbta_client : BOOLEAN,
                    walking_speed_kmh : {5}, request_time : {NoneNum}]
    /\ caller = "find_route"
    /\ path \in BranchPaths
    /\ enrich = EnrichStart(T0, NoneNum)
    /\ route = NoRoute
    /\ alt = AltIdle
    /\ search = SearchIdle
    /\ probe = [on |-> TRUE, asked |-> FALSE]
    /\ handler = HandlerIdle

NextLogged == EnrichLogged

SpecLogged == InitLogged /\ [][NextLogged]_vars

\* the last edge enriched was a train edge
TrainEdgeEnriched ==
    /\ probe.on /\ "asked" \in DOMAIN probe /\ probe.asked
    /\ EdgeGet(probe.edge, "type", "train") = "train"

\* the departures of the answer at or after the boarding clock
LiveDepartures ==
    IF ~request.mbta_client \/ probe.answer.raises THEN {}
    ELSE {k \in 1..Len(probe.answer.departures) :
             probe.answer.departures[k].departure_time >= probe.clock}

\* the segment is timed from the clock with the nominal duration
TimedFromClock(seg, status) ==
    /\ seg.departure_time = probe.clock
    /\ seg.time_seconds = EdgeGet(probe.edge, "time_seconds", 120)
    /\ seg.arrival_time = probe.clock + EdgeGet(probe.edge, "time_seconds", 120)
    /\ seg.status = status

\* C26: every train edge of the path yields exactly one train segment
\* whatever the source does: without a client it is timed from the clock with
\* the nominal duration and status Scheduled; when the lookup raises or
\* returns no departure at or after the clock, from the clock with status
\* Estimated; only with a valid departure does it carry the live departure
\* and its status.  The enrichment always returns a Route.
C26_OneSegmentPerTrainEdge ==
    /\ TrainEdgeEnriched =>
          /\ Len(enrich.enriched_segments) = probe.before + 1
          /\ LET seg == enrich.enriched_segments[Len(enrich.enriched_segments)]
             IN /\ seg.type = "train"
                /\ seg.from_station = probe.edge.from
                /\ seg.to_station = probe.edge.to
                /\ IF ~request.mbta_client THEN TimedFromClock(seg, "Scheduled")
                   ELSE IF LiveDepartures = {} THEN TimedFromClock(seg, "Estimated")
                   ELSE LET first == probe.answer.departures[
                                        CHOOSE k \in LiveDepartures :
                                           \A j \in LiveDepartures :
                                              probe.answer.departures[k].departure_time
                                                <= probe.answer.departures[j].departure_time]
                        IN /\ seg.departure_time = first.departure_time
                           /\ seg.status = EdgeGet(first, "status", "Scheduled")
    /\ (probe.on /\ "asked" \in DOMAIN probe /\ pc = "done") =>
          /\ IsRoute(route)
          /\ Len(route.segments) = Len(path)
          /\ \A k \in 1..Len(path) :
                route.segments[k].type = EdgeGet(path[k], "type", "train")

\* the source answered with departures that had all left: the segment is Estimated
W_C26_OnlyPastDepartures ==
    /\ TrainEdgeEnriched /\ request.mbta_client
    /\ ~probe.answer.raises /\ probe.answer.departures # <<>>
    /\ LiveDepartures = {}
    /\ enrich.enriched_segments[Len(enrich.enriched_segments)].status = "Estimated"

(***************************************************************************)
(* Two find_time_aware_path computations on one TransitGraph.  The graph's *)
(* edge list is part of the state; each computation keeps its own queue,   *)
(* labels and paths, and a path holds, for each edge, either a dict of its *)
(* own or the graph's dict.  Each computation is first run alone on the    *)
(* graph as loaded, then the two are run together, one step at a time in   *)
(* any order, against the same timetable.                                  *)
(***************************************************************************)
\* self.edges as loaded, for the rapid-transit stations
LoadedEdges == SelectSeq(SearchEdges, LAMBDA e : e.from \in CoreStations)

\* variant: new_edge = edge, the times are written into the graph's dict
AnnotateInPlace(graph, k, annotated) ==
    [graph |-> [graph EXCEPT ![k] = annotated], link |-> [ref |-> k, copied |-> FALSE]]

\* new_edge = edge.copy(), the times are written into the copy
AnnotateCopy(graph, k, annotated) ==
    [graph |-> graph, link |-> [ref |-> k, copied |-> TRUE, own |-> annotated]]

\* the dict a path entry stands for
Resolve(graph, link) == IF link.copied THEN link.own ELSE graph[link.ref]

ResolvePath(graph, links) == [i \in 1..Len(links) |-> Resolve(graph, links[i])]

\* self.adjacency.get(current_station, []), as positions in self.edges
AdjacencyRefs(graph, s) ==
    SelectSeq([k \in 1..Len(graph) |-> k], LAMBDA k : graph[k].from = s)

SharedTask(req) ==
    [pc |-> "find_time_aware_path", request |-> req, search |-> SearchIdle,
     route |-> NoRoute]

\* find_time_aware_path up to the search loop
TaskStart(t) ==
    LET direct_walk == find_walking_edges_to_destination(t.request.start_station_id,
                                                         t.request.end_station_id)
    IN IF ~t.request.mbta_client THEN [t EXCEPT !.pc = "done", !.route = Raised]
       ELSE IF \/ t.request.start_station_id \notin DOMAIN SearchNodes
               \/ t.request.end_station_id \notin DOMAIN SearchNodes
       THEN [t EXCEPT !.pc = "done", !.route = NoRoute]
       ELSE IF direct_walk # <<>> /\ EdgeGet(direct_walk[1], "time_seconds", 0) < 600
       THEN [t EXCEPT !.pc = "done",
                      !.route = DirectWalkRoute(direct_walk[1], t.request.departure_time)]
       ELSE [t EXCEPT !.pc = "search",
                      !.search = SearchStart(t.request.start_station_id,
                                             t.request.end_station_id,
                                             t.request.departure_time,
                                             t.request.prefer_fewer_transfers)]

\* the loop head: the exit, or one pop, the destination test and the edge list
TaskPop(t, graph) ==
    IF LoopEnds(t.search.pq, t.search.paths_explored)
    THEN [t EXCEPT !.pc = "done", !.route = NoRoute]
    ELSE LET popped == HeapPop(t.search.pq)
             cur == popped.item
             refs == AdjacencyRefs(graph, cur.current_station)
         IN IF cur.current_station = t.request.end_station_id
            THEN [t EXCEPT !.pc = "done",
                           !.route = build_route(ResolvePath(graph, cur.path)),
                           !.search = [on |-> TRUE, pq |-> popped.heap,
                                       best_labels |-> t.search.best_labels,
                                       paths_explored |-> t.search.paths_explored + 1,
                                       raised |-> FALSE, cur |-> cur]]
            ELSE [t EXCEPT !.pc = IF refs = <<>> THEN "search" ELSE "expand",
                           !.search = [on |-> TRUE, pq |-> popped.heap,
                                       best_labels |-> t.search.best_labels,
                                       paths_explored |-> t.search.paths_explored + 1,
                                       raised |-> FALSE, cur |-> cur, edges |-> refs,
                                       ei |-> 1]]

\* control after one edge of the popped station
TaskAdvance(t, sr) ==
    [t EXCEPT !.search = [sr EXCEPT !.ei = @ + 1],
              !.pc = IF sr.raised THEN "done"
                     ELSE IF sr.ei + 1 > Len(sr.edges) THEN "search" ELSE "expand",
              !.route = IF sr.raised THEN Raised ELSE @]

\* one edge of the popped station: its cost, the labels, the annotated edge, the push
TaskExpand(t, graph) ==
    LET sr == t.search
        cur == sr.cur
        k == sr.edges[sr.ei]
        edge == graph[k]
        edges == [i \in 1..Len(sr.edges) |-> graph[sr.edges[i]]]
        answer == TimetableAnswer(cur, edge, t.request.max_transfers)
        cost == EdgeCost(cur, edge, edges, t.request.end_station_id,
                         t.request.max_transfers, answer)
        labels == LabelsAt(sr.best_labels, edge.to)
    IN IF cost.skip \/ IsThisDominated(labels, cost.new_transfers, cost.next_arrival)
       THEN [task |-> TaskAdvance(t, sr), graph |-> graph]
       ELSE LET made == AnnotateCopy(graph, k, NewEdge(cur, edge, cost))
                estimated_total_time ==
                    cost.next_arrival + Heuristic(edge.to, t.request.end_station_id)
                item == SearchItem(SortKey(t.request.prefer_fewer_transfers,
                                           cost.new_transfers, estimated_total_time),
                                   cost.next_arrival, edge.to,
                                   Append(cur.path, made.link),
                                   cost.new_transfers, cost.new_line)
                pushed == [sr EXCEPT !.best_labels =
                                        (edge.to :> NewLabels(labels, cost.new_transfers,
                                                              cost.next_arrival)) @@ @,
                                     !.pq = HeapPush(@, item),
                                     !.raised = PathsCompared(sr.pq, item)]
            IN [task |-> TaskAdvance(t, pushed), graph |-> made.graph]

\* the code of one computation up to its next await, or to its return
TaskStep(t, graph) ==
    IF t.pc = "find_time_aware_path" THEN [task |-> TaskStart(t), graph |-> graph]
    ELSE IF t.pc = "search" THEN [task |-> TaskPop(t, graph), graph |-> graph]
    ELSE TaskExpand(t, graph)

SharedRequests ==
    [start_station_id : {"place-knncl", "place-chmnl", "place-pktrm", "place-haecl"},
     end_station_id : {"place-bomnl", "place-gover", "place-spmnl"},
     departure_time : {T0},
     mbta_client : {TRUE},
     prefer_fewer_transfers : BOOLEAN,
     max_transfers : {MaxTransfers}]

\* a computation runs alone on the graph as loaded; its Route is kept aside
RunAlone ==
    /\ pc = "shared"
    /\ probe.phase \in {"A", "B"}
    /\ LET t == probe.tasks[probe.phase]
       IN IF t.pc = "done"
          THEN probe' = [probe EXCEPT !.alone[probe.phase] = t.route,
                                      !.tasks[probe.phase] = SharedTask(t.request),
                                      !.graph = LoadedEdges,
                                      !.phase = IF @ = "A" THEN "B" ELSE "together"]
          ELSE LET r == TaskStep(t, probe.graph)
               IN probe' = [probe EXCEPT !.tasks[probe.phase] = r.task,
                                         !.graph = r.graph]
    /\ UNCHANGED <<handler, pc, request, caller, path, enrich, route, alt, search>>

\* one of the two computations runs up to its next await
RunTogether(n) ==
    /\ pc = "shared"
    /\ probe.phase = "together"
    /\ probe.tasks[n].pc # "done"
    /\ LET r == TaskStep(probe.tasks[n], probe.graph)
       IN probe' = [probe EXCEPT !.tasks[n] = r.task, !.graph = r.graph]
    /\ UNCHANGED <<handler, pc, request, caller, path, enrich, route, alt, search>>

RunTogetherA == RunTogether("A")

RunTogetherB == RunTogether("B")

InitShared ==
    /\ pc = "shared"
    /\ request \in SharedRequests
    /\ caller = "find_time_aware_path"
    /\ path = <<>>
    /\ enrich = EnrichIdle
    /\ route = NoRoute
    /\ alt = AltIdle
    /\ search = SearchIdle
    /\ \E other \in SharedRequests :
          probe = [on |-> TRUE, phase |-> "A", graph |-> LoadedEdges,
                   tasks |-> [A |-> SharedTask(request), B |-> SharedTask(other)],
                   alone |-> [A |-> NoRoute, B |-> NoRoute]]
    /\ handler = HandlerIdle

NextShared == RunAlone \/ RunTogetherA \/ RunTogetherB

SpecShared == InitShared /\ [][NextShared]_vars

Sharing == probe.on /\ "phase" \in DOMAIN probe

\* C27: no routing operation modifies the graph's edges, paths carry copies
\* of the edges they annotate, and so each of two computations whose steps
\* interleave at their await points returns the Route it returns when run
\* alone against the same answers of the source.
C27_InterleavedSameAsAlone ==
    Sharing =>
        /\ probe.graph = LoadedEdges
        /\ probe.phase = "together" =>
              \A n \in {"A", "B"} :
                  probe.tasks[n].pc = "done" => probe.tasks[n].route = probe.alone[n]

\* both computations are inside their loops, each holding in a queued path
\* its own annotation of the same edge of the graph, with different times
W_C27_SameEdgeTwoAnnotations ==
    /\ Sharing /\ probe.phase = "together"
    /\ probe.tasks["A"].pc = "expand" /\ probe.tasks["B"].pc = "expand"
    /\ \E i \in 1..Len(probe.tasks["A"].search.pq) :
       \E j \in 1..Len(probe.tasks["B"].search.pq) :
          LET pa == probe.tasks["A"].search.pq[i].path
              pb == probe.tasks["B"].search.pq[j].path
          IN \E x \in 1..Len(pa) : \E y \in 1..Len(pb) :
                /\ pa[x].ref = pb[y].ref
                /\ Resolve(probe.graph, pa[x]).departure_time
                      # Resolve(probe.graph, pb[y]).departure_time

(***************************************************************************)
(* The transfer count of the Route find_time_aware_path returns.           *)
(***************************************************************************)
\* the search popped the destination and built its Route
RouteBuilt ==
    /\ pc = "done" /\ caller = "find_time_aware_path"
    /\ search.on /\ "cur" \in DOMAIN search
    /\ search.cur.current_station = request.end_station_id
    /\ IsRoute(route)

\* C28: the num_transfers of the Route returned by find_time_aware_path is
\* the transfer count of the destination state that was popped, and so never
\* exceeds max_transfers, walks between trains of different lines included.
C28_RouteTransfersArePopped ==
    RouteBuilt =>
        /\ route.num_transfers = search.cur.num_transfers
        /\ route.num_transfers <= request.max_transfers

(***************************************************************************)
(* The transfers of an enriched Route, walks between the trains included.  *)
(***************************************************************************)
\* the most recent train segment before segment k, 0 when there is none
PreviousTrain(segs, k) ==
    LET earlier == {j \in 1..(k - 1) : segs[j].type = "train"}
    IN IF earlier = {} THEN 0 ELSE CHOOSE j \in earlier : \A i \in earlier : i <= j

\* the train segments of another line family than the train segment before them
FamilyChangesAcrossWalks(segs) ==
    {k \in 1..Len(segs) :
        /\ segs[k].type = "train"
        /\ PreviousTrain(segs, k) # 0
        /\ LineFamily(segs[PreviousTrain(segs, k)].line) # LineFamily(segs[k].line)}

\* C29: in a Route produced by enrichment, num_transfers is the number of
\* train segments whose line is of another family than the line of the most
\* recent earlier train segment, walk segments in between or not, and each
\* such segment has the transfer buffer applied before boarding.
C29_TransfersCountedAcrossWalks ==
    (pc = "done" /\ IsRoute(route)) =>
        /\ route.num_transfers = Cardinality(FamilyChangesAcrossWalks(route.segments))
        /\ \A k \in FamilyChangesAcrossWalks(route.segments) :
              route.segments[k].departure_time
                 >= route.segments[k - 1].arrival_time
                    + calculate_transfer_time(route.segments[k].from_station,
                                              route.segments[PreviousTrain(route.segments, k)].line,
                                              route.segments[k].line,
                                              request.walking_speed_kmh)

(***************************************************************************)
(* When find_route returns None.                                           *)
(***************************************************************************)
\* C30: find_route returns None only when an endpoint is unknown or the
\* destination is unreachable: whenever find_shortest_path returns an edge
\* list, the empty one for origin = destination included, find_route returns
\* a Route.
C30_PathFoundGivesRoute ==
    (pc = "done" /\ caller = "find_route"
       /\ FindShortestPath(request.start_station_id, request.end_station_id).found)
        => IsRoute(route)
====
